---- MODULE Spec2Model ----
(***************************************************************************)
(* A model of sshtun (github.com/sa6mwa/sshtun): the supervisor            *)
(* Tunnels.OpenAll, the tunnel lifecycle SSHTUN.Open with its privilege    *)
(* gate (Become / Unbecome) and serialization mutex, and the keepalive     *)
(* task StartKeepalive.                                                    *)
(*                                                                         *)
(* The specifications share the variables:                                 *)
(*   Spec / FairSpec  OpenAll running the tunnels of the configuration     *)
(*   DirectSpec       Open called directly, with or without Context        *)
(*   DirectFairSpec   DirectSpec with the goroutines of Open scheduled     *)
(*   KASpec           one StartKeepalive task against a client whose       *)
(*                    keepalive requests succeed or fail                   *)
(*   KAFairSpec       KASpec with the goroutines scheduled                 *)
(*   TunSpec          one TUN handle: ConfigureInterface and Close         *)
(*   HelperSpec       one run of the remote helper tunreadwriter           *)
(*   ScpSpec          one call of UploadHelperToRemote and its writes      *)
(*   ConfigSpec       a tunnel set saved by SaveConfig, loaded by          *)
(*                    LoadConfig                                           *)
(*   PumpSpec         one call of StartTunneling and its copy goroutines   *)
(*   AttemptSpec      the Open calls made on one tunnel: the helper path   *)
(*                    and the session set-up of StartTunneling             *)
(*   CreateSpec       one call of tun.CreateTUN and its descriptor         *)
(***************************************************************************)
EXTENDS Integers, Sequences, FiniteSets, TLC

\* const ROOT int = 0
ROOT == 0
\* the invoking user's uid (main drops a setuid start to it before OpenAll)
UserUID == 1000

\* the tunnels of the configuration, in the order of Tunnels.Tunnels: the
\* two tunnels of the README's configuration
TunnelNames == <<"example", "example2">>
NumTunnels == Len(TunnelNames)
TunnelIds == 1..NumTunnels

NoHolder == 0
NoUID == -1

VARIABLES
    \* ---- process-wide state
    euid,          \* effective uid of the process (syscall.Geteuid)
    setuid,        \* the executable is installed setuid root (saved uid 0)
    mutex,         \* holder of sshtun.mutex, NoHolder when unlocked
    canceled,      \* ctx.Done() is closed
    rootBy,        \* observation: the tunnel whose Seteuid(ROOT) made euid 0
    \* ---- configuration
    Enable,            \* SSHTUN.Enable per tunnel
    KeepaliveInterval, \* SSHTUN.KeepaliveInterval per tunnel (0 or positive)
    RemoteUploadDirectory, \* SSHTUN.RemoteUploadDirectory per tunnel
    ctxToken,          \* the ctx given to Open carries the sshtun value (Context)
    \* ---- OpenAll
    mainPc,          \* position of OpenAll: "loop", "wait", "error", "returned"
    idx,             \* loop index i of OpenAll
    numberOfTunnels, \* numberOfTunnels of OpenAll
    wg,              \* counter of the sync.WaitGroup
    openAllErr,      \* the message of the error OpenAll returned, <<>> if none
    \* ---- per tunnel: the worker goroutine and its Open call, a record
    \*   pc            position of the worker / of Open
    \*   unlockOnExit  Open's unlockOnExit
    \*   originalUID   Became.originalUID of Open's guard b
    \*   becameUID     Became.becameUID of Open's guard b
    \*   localTUN      Open's localTUN handle is open
    \*   client        the ssh client of Open: "nil", "open", "closed"
    \*   watcher       the goroutine of Open that closes the client is running
    \*   openDone      Open's openDone channel is closed
    \*   keepalive     the StartKeepalive goroutine of Open is running
    \*   lastErr       what Open returned: "none", "nil", "err", "unrecoverable"
    \*   tmr           the worker's 5 second timer has fired
    \*   remoteTunReadWriter  SSHTUN.remoteTunReadWriter: the directory part of
    \*                 the recorded helper path, "" while nothing is recorded
    \*  and observations of the current Open call
    \*   entryUid      euid when Open was called
    \*   lockUid       euid when Open acquired the mutex
    \*   unlockUid     euid when Open released the mutex
    \*   exitUid       euid when Open returned
    tun,
    \* ---- KASpec: one StartKeepalive task, a record
    \*   pc "idle" | "run" | "request" | "exit", countMax, n,
    \*   client "open" | "closed" (the task has called client.Close()),
    \*   done (the done channel is closed), hist (results of the ticks so far,
    \*   TRUE = the request succeeded), ctxDone (the context of Open is
    \*   canceled), watcherClosed (the watcher of Open has closed the client),
    \*   doneAt (the pc of the task when done was closed)
    ka,
    \* ---- TunSpec: one TUN handle and the kernel objects behind it
    dev,
    \* ---- HelperSpec: one run of the remote helper tunreadwriter
    helper,
    \* ---- ScpSpec: one call of UploadHelperToRemote and its copy session
    scp,
    \* ---- ConfigSpec: a tunnel set saved by SaveConfig and loaded by LoadConfig
    conf,
    \* ---- PumpSpec: one call of StartTunneling and its two copy goroutines
    pump,
    \* ---- AttemptSpec: the Open calls of one tunnel, their upload and session
    sess,
    \* ---- CreateSpec: one call of tun.CreateTUN
    create

procVars == <<euid, setuid, mutex, canceled, rootBy>>
cfgVars == <<Enable, KeepaliveInterval, RemoteUploadDirectory, ctxToken>>
mainVars == <<mainPc, idx, numberOfTunnels, wg, openAllErr>>
auxVars == <<ka, dev, helper, scp, conf, pump, sess, create>>
vars == <<procVars, cfgVars, mainVars, tun, auxVars>>

(***************************************************************************)
(* The privilege gate                                                      *)
(***************************************************************************)

\* syscall.Seteuid(uid) succeeds for root, for the current uid, and for an
\* unprivileged process only towards its saved uid (0 when installed setuid)
SeteuidOK(uid) ==
    \/ euid = ROOT
    \/ uid = euid
    \/ setuid /\ uid = ROOT

\* observation: who escalated, after tunnel t set euid to uid
RootByAfter(t, uid) ==
    IF uid = ROOT THEN (IF euid = ROOT THEN rootBy ELSE t) ELSE NoHolder

(***************************************************************************)
(* SSHTUN.Open, one action per step.  mutex, euid and canceled are shared  *)
(* by all tunnels; tun[t] is the state of tunnel t.                        *)
(***************************************************************************)

\* unrecoverable as it would be if it returned err as it is
unrecoverableVerbatim(err) == err

\* unrecoverable(err): fmt.Errorf("%w: %w", ErrUnrecoverable, err).  The
\* value "unrecoverable" stands for an error whose chain holds
\* ErrUnrecoverable, "err" for one whose chain does not
unrecoverable(err) == "unrecoverable"

\* tunnel t's record after Open returned err: the deferred calls ran
\* (close(done), close(openDone), localTUN.Close(), the conditional Unlock)
Returned(t, err) ==
    [tun[t] EXCEPT !.pc = "returned",
                   !.lastErr = err,
                   !.keepalive = FALSE,
                   !.openDone = (tun[t].client # "nil"),
                   !.localTUN = FALSE,
                   !.unlockUid = IF tun[t].unlockOnExit THEN euid ELSE @,
                   !.unlockOnExit = FALSE,
                   !.exitUid = euid]

\* the return of Open as it would be without the deferred func
DeferredUnlockMissing(t) == mutex

\* the deferred func of Open: if unlockOnExit { v.mutex.Unlock() }
DeferredUnlock(t) ==
    IF tun[t].unlockOnExit THEN NoHolder ELSE mutex

\* Open returns err; euid is left as it is
Return(t, err) ==
    /\ tun' = [tun EXCEPT ![t] = Returned(t, err)]
    /\ mutex' = DeferredUnlock(t)

\* the type assertion as it would be if it was never checked
TokenAssumed == TRUE

\* v, ok := ctx.Value(sshtunKey{}).(sshtun)
HasToken == ctxToken

\* tunnel.Open(ctx) is called: if !ok { return ErrMissingContext }, else
\* Open goes on to v.mutex.Lock()
CallOpen(t) ==
    /\ tun[t].pc = "open"
    /\ LET called == [tun[t] EXCEPT !.lastErr = "none",
                                    !.client = "nil",
                                    !.openDone = FALSE,
                                    !.entryUid = euid]
       IN IF HasToken
          THEN tun' = [tun EXCEPT ![t] = [called EXCEPT !.pc = "lock"]]
          ELSE tun' = [tun EXCEPT ![t] =
                          [called EXCEPT !.pc = "returned",
                                         !.lastErr = "missingContext",
                                         !.exitUid = euid]]
    /\ UNCHANGED <<procVars, cfgVars, mainVars, auxVars>>

\* Lock as it would be without mutual exclusion: it does not wait for the
\* holder
LockNoWait(t) ==
    /\ tun[t].pc = "lock"
    /\ mutex' = t
    /\ tun' = [tun EXCEPT ![t] = [@ EXCEPT !.pc = "become",
                                           !.unlockOnExit = TRUE,
                                           !.lockUid = euid]]
    /\ UNCHANGED <<euid, setuid, canceled, rootBy, cfgVars, mainVars, auxVars>>

\* v.mutex.Lock(); unlockOnExit := true
Lock(t) ==
    /\ tun[t].pc = "lock"
    /\ mutex = NoHolder
    /\ mutex' = t
    /\ tun' = [tun EXCEPT ![t] = [@ EXCEPT !.pc = "become",
                                           !.unlockOnExit = TRUE,
                                           !.lockUid = euid]]
    /\ UNCHANGED <<euid, setuid, canceled, rootBy, cfgVars, mainVars, auxVars>>

\* b, err := s.Become(ROOT): records the current euid as original and
\* changes euid when it differs; a failed Seteuid returns unrecoverable(err)
Become(t) ==
    /\ tun[t].pc = "become"
    /\ IF SeteuidOK(ROOT)
       THEN /\ euid' = ROOT
            /\ rootBy' = RootByAfter(t, ROOT)
            /\ tun' = [tun EXCEPT ![t] = [@ EXCEPT !.pc = "createTUN",
                                                   !.originalUID = euid,
                                                   !.becameUID = ROOT]]
            /\ UNCHANGED mutex
       ELSE /\ Return(t, unrecoverable("err"))
            /\ UNCHANGED <<euid, rootBy>>
    /\ UNCHANGED <<setuid, canceled, cfgVars, mainVars, auxVars>>

\* localTUN, err := tun.CreateTUN(...); defer localTUN.Close();
\* on error return unrecoverable(err)
CreateTUN(t) ==
    /\ tun[t].pc = "createTUN"
    /\ \E ok \in BOOLEAN :
        IF ok
        THEN /\ tun' = [tun EXCEPT ![t] = [@ EXCEPT !.pc = "configure",
                                                    !.localTUN = TRUE]]
             /\ UNCHANGED mutex
        ELSE Return(t, unrecoverable("err"))
    /\ UNCHANGED <<euid, setuid, canceled, rootBy, cfgVars, mainVars, auxVars>>

\* the step as it would be if Open dialed right after it, still escalated
ConfigureThenDial(t) ==
    /\ tun[t].pc = "configure"
    /\ \E ok \in BOOLEAN :
        IF ok
        THEN /\ tun' = [tun EXCEPT ![t] = [@ EXCEPT !.pc = "dial"]]
             /\ UNCHANGED mutex
        ELSE Return(t, unrecoverable("err"))
    /\ UNCHANGED <<euid, setuid, canceled, rootBy, cfgVars, mainVars, auxVars>>

\* localTUN.ConfigureInterface(s.LocalNetwork); on error return
\* unrecoverable(err)
ConfigureInterface(t) ==
    /\ tun[t].pc = "configure"
    /\ \E ok \in BOOLEAN :
        IF ok
        THEN /\ tun' = [tun EXCEPT ![t] = [@ EXCEPT !.pc = "unbecome"]]
             /\ UNCHANGED mutex
        ELSE Return(t, unrecoverable("err"))
    /\ UNCHANGED <<euid, setuid, canceled, rootBy, cfgVars, mainVars, auxVars>>

\* Unbecome as it would be if it restored nothing
UnbecomeKeeps(t) == euid

\* the euid after b.Unbecome() of tunnel t: Seteuid(b.originalUID) when the
\* current euid differs from it
UnbecomeUID(t) ==
    IF euid # tun[t].originalUID THEN tun[t].originalUID ELSE euid

\* b.Unbecome() at position `at`, then go to `next`; a failed Seteuid
\* returns unrecoverable(err)
Unbecome(t, at, next) ==
    /\ tun[t].pc = at
    /\ IF SeteuidOK(UnbecomeUID(t))
       THEN /\ euid' = UnbecomeUID(t)
            /\ rootBy' = RootByAfter(t, UnbecomeUID(t))
            /\ tun' = [tun EXCEPT ![t] = [@ EXCEPT !.pc = next,
                                                   !.becameUID = UnbecomeUID(t)]]
            /\ UNCHANGED mutex
       ELSE /\ Return(t, unrecoverable("err"))
            /\ UNCHANGED <<euid, rootBy>>
    /\ UNCHANGED <<setuid, canceled, cfgVars, mainVars, auxVars>>

Unbecome1(t) == Unbecome(t, "unbecome", "dial")

\* client, err := s.Dial(ctx), first part: the signers are collected and
\* net.Dialer.DialContext(ctx, ...) connects; it fails at once when ctx is
\* canceled.  On error Open returns err (not unrecoverable)
Dial(t) ==
    /\ tun[t].pc = "dial"
    /\ \E ok \in BOOLEAN :
        IF ok /\ ~canceled
        THEN /\ tun' = [tun EXCEPT ![t] = [@ EXCEPT !.pc = "handshake"]]
             /\ UNCHANGED mutex
        ELSE Return(t, "err")
    /\ UNCHANGED <<euid, setuid, canceled, rootBy, cfgVars, mainVars, auxVars>>

\* s.Dial, second part: ssh.NewClientConn(conn, ...) runs the handshake on
\* the connection; it reads from the peer with no deadline and takes no
\* ctx, so it ends only when the peer answers or drops the connection.
\* On success Open makes openDone and starts the watcher goroutine
Handshake(t) ==
    /\ tun[t].pc = "handshake"
    /\ \E ok \in BOOLEAN :
        IF ok
        THEN /\ tun' = [tun EXCEPT ![t] = [@ EXCEPT !.pc = "upload",
                                                    !.client = "open",
                                                    !.openDone = FALSE,
                                                    !.watcher = TRUE]]
             /\ UNCHANGED mutex
        ELSE Return(t, "err")
    /\ UNCHANGED <<euid, setuid, canceled, rootBy, cfgVars, mainVars, auxVars>>

\* the watcher as it would be if it only waited for ctx.Done()
WatcherCtxOnly(t) ==
    /\ tun[t].watcher
    /\ canceled
    /\ tun' = [tun EXCEPT ![t] = [@ EXCEPT !.watcher = FALSE,
                                           !.client = "closed"]]
    /\ UNCHANGED <<procVars, cfgVars, mainVars, auxVars>>

\* go func() { select { case <-ctx.Done(): case <-openDone: }; client.Close() }()
Watcher(t) ==
    /\ tun[t].watcher
    /\ canceled \/ tun[t].openDone
    /\ tun' = [tun EXCEPT ![t] = [@ EXCEPT !.watcher = FALSE,
                                           !.client = "closed"]]
    /\ UNCHANGED <<procVars, cfgVars, mainVars, auxVars>>

\* the upload as it would be if Open released the mutex before the second
\* escalation
UploadThenUnlock(t) ==
    /\ tun[t].pc = "upload"
    /\ tun[t].client = "open"
    /\ tun' = [tun EXCEPT ![t] = [@ EXCEPT !.pc = "become2",
                                           !.unlockOnExit = FALSE,
                                           !.unlockUid = euid]]
    /\ mutex' = NoHolder
    /\ UNCHANGED <<euid, setuid, canceled, rootBy, cfgVars, mainVars, auxVars>>

\* the name UploadHelperToRemote gives the helper on the remote host
\* (tunreadwriter-<UTC timestamp>-<crand.Int63()>)
randomFilename == "tunreadwriter-20060102T150405-1"

\* the remoteDirectory argument of Open's call
\* s.UploadHelperToRemote(client, "")
UploadArgument(t) == ""

\* if remoteDirectory == "" { remoteDirectory = "/tmp" }
RemoteDirectory(remoteDirectory) ==
    IF remoteDirectory = "" THEN "/tmp" ELSE remoteDirectory

\* filepath.Join(remoteDirectory, randomFilename), as its two parts
CompleteFilename(remoteDirectory) ==
    <<RemoteDirectory(remoteDirectory), randomFilename>>

\* s.UploadHelperToRemote(client, "") ends because the remote copy command
\* ended (ok or not) while the client is open; on success the path is
\* recorded in s.remoteTunReadWriter
UploadHelperToRemote(t) ==
    /\ tun[t].pc = "upload"
    /\ tun[t].client = "open"
    /\ \E ok \in BOOLEAN :
        IF ok
        THEN /\ tun' = [tun EXCEPT ![t] =
                          [@ EXCEPT !.pc = "become2",
                                    !.remoteTunReadWriter =
                                        CompleteFilename(UploadArgument(t))]]
             /\ UNCHANGED mutex
        ELSE Return(t, "err")
    /\ UNCHANGED <<euid, setuid, canceled, rootBy, cfgVars, mainVars, auxVars>>

\* s.UploadHelperToRemote fails because the client was closed
UploadAborted(t) ==
    /\ tun[t].pc = "upload"
    /\ tun[t].client = "closed"
    /\ Return(t, "err")
    /\ UNCHANGED <<euid, setuid, canceled, rootBy, cfgVars, mainVars, auxVars>>

\* b.Become(ROOT): s.Become(ROOT) makes a new guard, b keeps its
\* originalUID and takes the new becameUID; on error unrecoverable(err)
Become2(t) ==
    /\ tun[t].pc = "become2"
    /\ IF SeteuidOK(ROOT)
       THEN /\ euid' = ROOT
            /\ rootBy' = RootByAfter(t, ROOT)
            /\ tun' = [tun EXCEPT ![t] = [@ EXCEPT !.pc = "linkup",
                                                   !.becameUID = ROOT]]
            /\ UNCHANGED mutex
       ELSE /\ Return(t, unrecoverable("err"))
            /\ UNCHANGED <<euid, rootBy>>
    /\ UNCHANGED <<setuid, canceled, cfgVars, mainVars, auxVars>>

\* localTUN.LinkUp(); on error return unrecoverable(err)
LinkUp(t) ==
    /\ tun[t].pc = "linkup"
    /\ \E ok \in BOOLEAN :
        IF ok
        THEN /\ tun' = [tun EXCEPT ![t] = [@ EXCEPT !.pc = "unbecome2"]]
             /\ UNCHANGED mutex
        ELSE Return(t, unrecoverable("err"))
    /\ UNCHANGED <<euid, setuid, canceled, rootBy, cfgVars, mainVars, auxVars>>

Unbecome2(t) == Unbecome(t, "unbecome2", "keepalive")

\* the step as it would be without the test of the interval
KeepaliveAlways(t) ==
    /\ tun[t].pc = "keepalive"
    /\ tun' = [tun EXCEPT ![t] = [@ EXCEPT !.pc = "unlock", !.keepalive = TRUE]]
    /\ UNCHANGED <<procVars, cfgVars, mainVars, auxVars>>

\* if s.KeepaliveInterval > 0 { done := make(chan struct{}); defer
\* close(done); go StartKeepalive(client, ..., done) }
KeepaliveStep(t) ==
    /\ tun[t].pc = "keepalive"
    /\ tun' = [tun EXCEPT ![t] = [@ EXCEPT !.pc = "unlock",
                                           !.keepalive = (KeepaliveInterval[t] > 0)]]
    /\ UNCHANGED <<procVars, cfgVars, mainVars, auxVars>>

\* the step as it would be if the mutex was kept for the byte pump and left
\* to the deferred func
UnlockDeferred(t) ==
    /\ tun[t].pc = "unlock"
    /\ tun' = [tun EXCEPT ![t] = [@ EXCEPT !.pc = "tunneling"]]
    /\ UNCHANGED <<procVars, cfgVars, mainVars, auxVars>>

\* v.mutex.Unlock(); unlockOnExit = false
Unlock(t) ==
    /\ tun[t].pc = "unlock"
    /\ mutex' = NoHolder
    /\ tun' = [tun EXCEPT ![t] = [@ EXCEPT !.pc = "tunneling",
                                           !.unlockOnExit = FALSE,
                                           !.unlockUid = euid]]
    /\ UNCHANGED <<euid, setuid, canceled, rootBy, cfgVars, mainVars, auxVars>>

\* the result as it would be if a failed byte pump was unrecoverable
TunnelingUnrecoverable(failed) ==
    IF failed /\ ~canceled THEN "unrecoverable" ELSE "nil"

\* the result as it would be if the error was returned whatever ctx.Err()
TunnelingKeepsError(failed) ==
    IF failed THEN "err" ELSE "nil"

\* what Open returns when s.StartTunneling returned (failed or not):
\* the error when ctx.Err() == nil, otherwise nil
TunnelingResult(failed) ==
    IF failed /\ ~canceled THEN "err" ELSE "nil"

\* s.StartTunneling up to session.Start(cmd): the session is opened and the
\* remote command started, or an error is returned; the error of
\* session.StdinPipe() is returned as nil
StartTunneling(t) ==
    /\ tun[t].pc = "tunneling"
    /\ \E r \in {"started", "stdinPipe", "err"} :
        IF r = "started" /\ tun[t].client = "open"
        THEN /\ tun' = [tun EXCEPT ![t] = [@ EXCEPT !.pc = "pump"]]
             /\ UNCHANGED mutex
        ELSE IF r = "stdinPipe" /\ tun[t].client = "open"
             THEN Return(t, "nil")
             ELSE Return(t, TunnelingResult(TRUE))
    /\ UNCHANGED <<euid, setuid, canceled, rootBy, cfgVars, mainVars, auxVars>>

\* session.Wait() returns because the remote command ended, with exit
\* status 0 or not, while the client is open
SessionEnds(t) ==
    /\ tun[t].pc = "pump"
    /\ tun[t].client = "open"
    /\ \E failed \in BOOLEAN : Return(t, TunnelingResult(failed))
    /\ UNCHANGED <<euid, setuid, canceled, rootBy, cfgVars, mainVars, auxVars>>

\* session.Wait() returns an error because the client was closed
SessionAborted(t) ==
    /\ tun[t].pc = "pump"
    /\ tun[t].client = "closed"
    /\ Return(t, TunnelingResult(TRUE))
    /\ UNCHANGED <<euid, setuid, canceled, rootBy, cfgVars, mainVars, auxVars>>

\* the StartKeepalive goroutine of tunnel t counted countMax failures:
\* client.Close(); return
KeepaliveCloses(t) ==
    /\ tun[t].keepalive
    /\ tun[t].client = "open"
    /\ tun' = [tun EXCEPT ![t] = [@ EXCEPT !.keepalive = FALSE,
                                           !.client = "closed"]]
    /\ UNCHANGED <<procVars, cfgVars, mainVars, auxVars>>

(***************************************************************************)
(* Tunnels.OpenAll and its worker goroutines                               *)
(***************************************************************************)

\* one iteration of `for i := range t.Tunnels`: a disabled tunnel is
\* skipped, an enabled one counted, wg.Add(1), and its worker started
\* the loop as it would be without the test of the enable flag
StartsWorkerAlways(i) == TRUE

\* if !tunnel.Enable { continue }
StartsWorker(i) == Enable[i]

OpenAllLoop ==
    /\ mainPc = "loop"
    /\ idx <= NumTunnels
    /\ idx' = idx + 1
    /\ IF StartsWorker(idx)
       THEN /\ numberOfTunnels' = numberOfTunnels + 1
            /\ wg' = wg + 1
            /\ tun' = [tun EXCEPT ![idx] = [@ EXCEPT !.pc = "open"]]
       ELSE UNCHANGED <<numberOfTunnels, wg, tun>>
    /\ UNCHANGED <<mainPc, openAllErr, procVars, cfgVars, auxVars>>

\* the message as it would be if it named the number of enabled tunnels
ErrNoneEnabledCounted(total) ==
    <<"0 out of ", numberOfTunnels, " tunnel(s) marked enabled in configuration">>

\* fmt.Errorf("0 out of %d tunnel(s) marked enabled in configuration",
\* len(t.Tunnels)), as the pieces of the formatted message
ErrNoneEnabled(total) ==
    <<"0 out of ", total, " tunnel(s) marked enabled in configuration">>

\* after the loop: if numberOfTunnels == 0 { return fmt.Errorf(...) },
\* else wg.Wait()
OpenAllAfterLoop ==
    /\ mainPc = "loop"
    /\ idx > NumTunnels
    /\ IF numberOfTunnels = 0
       THEN /\ mainPc' = "error"
            /\ openAllErr' = ErrNoneEnabled(Len(TunnelNames))
       ELSE /\ mainPc' = "wait"
            /\ UNCHANGED openAllErr
    /\ UNCHANGED <<idx, numberOfTunnels, wg, tun, procVars, cfgVars, auxVars>>

\* wg.Wait() returns; return nil
OpenAllWait ==
    /\ mainPc = "wait"
    /\ wg = 0
    /\ mainPc' = "returned"
    /\ UNCHANGED <<idx, numberOfTunnels, wg, openAllErr, tun, procVars, cfgVars,
                   auxVars>>

\* the worker as it would be if it retried after every error
AfterOpenRetries(err) == "timer"

\* the worker as it would be if it gave up after every error
AfterOpenStopsOnError(err) ==
    IF err = "nil" THEN "timer" ELSE "stopped"

\* where the worker goes after Open returned err: wg.Done() and return
\* when errors.Is(err, ErrUnrecoverable), else on to the timer
AfterOpen(err) ==
    IF err = "unrecoverable" THEN "stopped" ELSE "timer"

\* the worker after tunnel.Open(ctx) returned; the guard b and the
\* observations of the call are dropped
WorkerAfterOpen(t) ==
    /\ tun[t].pc = "returned"
    /\ tun' = [tun EXCEPT ![t] = [@ EXCEPT !.pc = AfterOpen(tun[t].lastErr),
                                           !.tmr = FALSE,
                                           !.originalUID = NoUID,
                                           !.becameUID = NoUID,
                                           !.entryUid = NoUID,
                                           !.lockUid = NoUID,
                                           !.unlockUid = NoUID,
                                           !.exitUid = NoUID]]
    /\ wg' = IF AfterOpen(tun[t].lastErr) = "stopped" THEN wg - 1 ELSE wg
    /\ UNCHANGED <<mainPc, idx, numberOfTunnels, openAllErr, procVars, cfgVars,
                   auxVars>>

\* the timer of time.NewTimer(5 * time.Second) fires.  Five seconds is
\* taken to be enough for the watcher goroutine of the Open call that just
\* returned, runnable since openDone was closed, to have closed its client
TimerFires(t) ==
    /\ tun[t].pc = "timer"
    /\ ~tun[t].tmr
    /\ ~tun[t].watcher
    /\ tun' = [tun EXCEPT ![t] = [@ EXCEPT !.tmr = TRUE]]
    /\ UNCHANGED <<procVars, cfgVars, mainVars, auxVars>>

\* select { case <-ctx.Done(): wg.Done(); return ... }
WorkerSelectDone(t) ==
    /\ tun[t].pc = "timer"
    /\ canceled
    /\ tun' = [tun EXCEPT ![t] = [@ EXCEPT !.pc = "stopped"]]
    /\ wg' = wg - 1
    /\ UNCHANGED <<mainPc, idx, numberOfTunnels, openAllErr, procVars, cfgVars,
                   auxVars>>

\* the select as it would be with a default case instead of the timer
TimerCaseAlways(t) == TRUE

\* may the worker leave the select by `case <-tmr.C:`
TimerCaseReady(t) == tun[t].tmr

\* select { ... case <-tmr.C: } and around the for loop
WorkerSelectTimer(t) ==
    /\ tun[t].pc = "timer"
    /\ TimerCaseReady(t)
    /\ tun' = [tun EXCEPT ![t] = [@ EXCEPT !.pc = "open"]]
    /\ UNCHANGED <<procVars, cfgVars, mainVars, auxVars>>

\* cancel() of the context given to OpenAll (main: SIGINT / SIGTERM)
Cancel ==
    /\ ~canceled
    /\ canceled' = TRUE
    /\ UNCHANGED <<euid, setuid, mutex, rootBy, cfgVars, mainVars, tun, auxVars>>

(***************************************************************************)
(* Specification of OpenAll                                                *)
(***************************************************************************)

InitTunnel ==
    [pc |-> "idle", unlockOnExit |-> FALSE, originalUID |-> NoUID,
     becameUID |-> NoUID, localTUN |-> FALSE, client |-> "nil",
     watcher |-> FALSE, openDone |-> FALSE, keepalive |-> FALSE,
     lastErr |-> "none", tmr |-> FALSE, remoteTunReadWriter |-> <<>>,
     entryUid |-> NoUID, lockUid |-> NoUID, unlockUid |-> NoUID,
     exitUid |-> NoUID]

InitKA ==
    [pc |-> "idle", countMax |-> 0, n |-> 0, client |-> "open", done |-> FALSE,
     hist |-> <<>>, ctxDone |-> FALSE, watcherClosed |-> FALSE,
     doneAt |-> "none"]

\* the TUN handle before CreateTUN
InitDev ==
    [file |-> "nil", fd |-> "none", reader |-> FALSE, otherClosed |-> FALSE,
     addr |-> <<>>,
     mask |-> <<>>, requests |-> 0, calls |-> 0, closes |-> <<>>,
     lastOp |-> "none", lastIn |-> 0, lastErr |-> "none"]

\* the helper before it is started
InitHelper ==
    [pc |-> "idle", deleteMyself |-> FALSE, device |-> "", network |-> "",
     user |-> "none", group |-> "none", uid |-> 0, gid |-> 0,
     owner |-> NoUID, ownerGroup |-> NoUID,
     exe |-> FALSE, removeDeferred |-> FALSE,
     tunOpen |-> FALSE, notify |-> FALSE, sig |-> FALSE, fromTUNdone |-> FALSE,
     fromSTDINdone |-> FALSE, done |-> FALSE, exit |-> "none"]

\* StartTunneling before it is called
InitPump ==
    [pc |-> "idle", client |-> "open", session |-> "none", canceled |-> FALSE,
     watcher |-> FALSE, remoteIN |-> "none", file |-> "open", fd |-> "open",
     toTUN |-> "none", toRemote |-> "none", in |-> 0, out |-> 0]

\* the attempts of one tunnel before the first Open call:
\*   pc        where the call is: "idle" between two Open calls
\*   attempt   the number of the Open call
\*   remoteTunReadWriter  SSHTUN.remoteTunReadWriter: 0 for "", else the
\*             number of the attempt whose upload made the random name
\*   command   the helper path in remoteTunReadWriterCommand, 0 for none
\*   session   the session of StartTunneling
\*   started   session.Start(remoteTunReadWriterCommand) succeeded
\*   canceled  ctx.Err() # nil
\*   ret       what StartTunneling returned
\*   result    what Open returned
InitSess ==
    [pc |-> "none", attempt |-> 0, remoteTunReadWriter |-> 0, command |-> 0,
     session |-> "none", started |-> FALSE, canceled |-> FALSE,
     ret |-> "none", result |-> "none"]

\* a call of CreateTUN(name, mtu, uid, gid) before it is made:
\*   pc       where the call is
\*   name     len(name)
\*   mtu, uid, gid  the arguments
\*   fd       the descriptor syscall.Open gave: "none", "open", "closed"
\*   closeFD  the flag the deferred function looks at
\*   closes   the number of syscall.Close(fd) calls made
\*   other    a descriptor another goroutine opened under the number of fd
\*            after fd was closed: "none", "open", "closed"
\*   file     t.File wraps fd
\*   t        a handle is returned
\*   err      an error is returned
InitCreate ==
    [pc |-> "none", name |-> 0, mtu |-> 0, uid |-> 0, gid |-> 0,
     fd |-> "none", closeFD |-> FALSE, closes |-> 0, other |-> "none",
     file |-> FALSE, t |-> FALSE, err |-> FALSE]

\* no configuration is saved or loaded
InitConf == [pc |-> "idle", T |-> <<>>, file |-> <<>>, loaded |-> <<>>]

\* UploadHelperToRemote before it is called
InitScp ==
    [pc |-> "idle", gpc |-> "none", remoteDirectory |-> "", randomFilename |-> "",
     tunreadwriter |-> <<>>, size |-> 0, copied |-> 0, stdin |-> <<>>,
     stdinClosed |-> FALSE, broken |-> FALSE, errCh |-> "open",
     started |-> FALSE, run |-> "none", result |-> "none",
     remoteTunReadWriter |-> <<>>]

\* main: OpenAll(ctx) is called on the loaded configuration; the
\* remote_upload_directory of the README's tunnels is ""
Init ==
    /\ euid = UserUID
    /\ setuid \in BOOLEAN
    /\ mutex = NoHolder
    /\ canceled = FALSE
    /\ rootBy = NoHolder
    /\ Enable \in [TunnelIds -> BOOLEAN]
    /\ KeepaliveInterval \in [TunnelIds -> {0, 1}]
    /\ RemoteUploadDirectory = [t \in TunnelIds |-> ""]
    /\ ctxToken = TRUE
    /\ mainPc = "loop"
    /\ idx = 1
    /\ numberOfTunnels = 0
    /\ wg = 0
    /\ openAllErr = <<>>
    /\ tun = [t \in TunnelIds |-> InitTunnel]
    /\ ka = InitKA
    /\ dev = InitDev
    /\ helper = InitHelper
    /\ scp = InitScp
    /\ conf = InitConf
    /\ pump = InitPump
    /\ sess = InitSess
    /\ create = InitCreate

OpenStep(t) ==
    \/ CallOpen(t)
    \/ Lock(t)
    \/ Become(t)
    \/ CreateTUN(t)
    \/ ConfigureInterface(t)
    \/ Unbecome1(t)
    \/ Dial(t)
    \/ UploadAborted(t)
    \/ Become2(t)
    \/ LinkUp(t)
    \/ Unbecome2(t)
    \/ KeepaliveStep(t)
    \/ Unlock(t)
    \/ StartTunneling(t)
    \/ SessionAborted(t)

\* steps that wait for the remote peer
PeerStep(t) ==
    \/ Handshake(t)
    \/ UploadHelperToRemote(t)
    \/ SessionEnds(t)
    \/ KeepaliveCloses(t)

WorkerStep(t) ==
    \/ WorkerAfterOpen(t)
    \/ TimerFires(t)
    \/ WorkerSelectDone(t)
    \/ WorkerSelectTimer(t)

OpenAllStep ==
    \/ OpenAllLoop
    \/ OpenAllAfterLoop
    \/ OpenAllWait

Next ==
    \/ OpenAllStep
    \/ Cancel
    \/ \E t \in TunnelIds : OpenStep(t) \/ PeerStep(t) \/ WorkerStep(t) \/ Watcher(t)

Spec == Init /\ [][Next]_vars

\* What the Go scheduler and the kernel guarantee: a runnable goroutine
\* runs, a sync.Mutex hands over to a waiting Lock (starvation mode), a
\* timer fires, a select with a ready case takes a ready case and does not
\* starve the ctx.Done() case, a connect ends (Dialer.Timeout) and calls on
\* a closed client return.  Nothing is assumed of the peer (PeerStep) and
\* of the arrival of a signal (Cancel).
Fairness ==
    /\ WF_vars(OpenAllStep)
    /\ \A t \in TunnelIds :
        /\ WF_vars(OpenStep(t))
        /\ SF_vars(Lock(t))
        /\ WF_vars(Watcher(t))
        /\ WF_vars(WorkerAfterOpen(t))
        /\ WF_vars(TimerFires(t))
        /\ WF_vars(WorkerSelectTimer(t))
        /\ SF_vars(WorkerSelectDone(t))

\* the configuration of the liveness checks: both kinds of tunnel, one with
\* keepalive and one without
FairInit ==
    /\ Init
    /\ KeepaliveInterval = [t \in TunnelIds |-> IF t = 1 THEN 1 ELSE 0]

FairSpec == FairInit /\ [][Next]_vars /\ Fairness

(***************************************************************************)
(* StartKeepalive                                                          *)
(***************************************************************************)

\* bounds of KASpec: the largest countMax tried and the number of ticks
MaxCountMax == 3
MaxTicks == 5

\* n++ after a failed serverAliveCheck
KAFailed(n) == n + 1

\* a success as it would be if it left the counter alone
KAKeepsCount(n) == n

\* n = 0 after a successful serverAliveCheck
KASucceeded(n) == 0

\* the threshold as it would be with > for >=
KAGiveUpLate(n, countMax) == n > countMax

\* if n >= countMax { client.Close(); return }
KAGiveUp(n, countMax) == n >= countMax

\* the client is closed, by the task itself or by the watcher of Open
KAClientClosed == ka.client = "closed" \/ ka.watcherClosed

\* case <-t.C: serverAliveCheck(client) sends the keepalive request and
\* waits for its reply
KATick ==
    /\ ka.pc = "run"
    /\ Len(ka.hist) < MaxTicks
    /\ ka' = [ka EXCEPT !.pc = "request"]
    /\ UNCHANGED <<procVars, cfgVars, mainVars, tun, dev, helper, scp, conf, pump, sess, create>>

\* client.SendRequest has returned, with success (ok) or with an error:
\* n = 0, or n++ and at countMax client.Close() and return
KAAfterRequest(ok) ==
    IF ok
    THEN [ka EXCEPT !.pc = "run",
                    !.n = KASucceeded(ka.n),
                    !.hist = Append(@, TRUE)]
    ELSE IF KAGiveUp(KAFailed(ka.n), ka.countMax)
         THEN [ka EXCEPT !.n = KAFailed(ka.n),
                         !.hist = Append(@, FALSE),
                         !.client = "closed",
                         !.pc = "exit"]
         ELSE [ka EXCEPT !.pc = "run",
                         !.n = KAFailed(ka.n),
                         !.hist = Append(@, FALSE)]

\* the peer answers the request, or the connection fails, while the client
\* is open
KAReply ==
    /\ ka.pc = "request"
    /\ ~KAClientClosed
    /\ \E ok \in BOOLEAN : ka' = KAAfterRequest(ok)
    /\ UNCHANGED <<procVars, cfgVars, mainVars, tun, dev, helper, scp, conf, pump, sess, create>>

\* the client was closed: the request that waits returns an error
KARequestAborted ==
    /\ ka.pc = "request"
    /\ KAClientClosed
    /\ ka' = KAAfterRequest(FALSE)
    /\ UNCHANGED <<procVars, cfgVars, mainVars, tun, dev, helper, scp, conf, pump, sess, create>>

\* the select as it would be if the done case closed the client
KADoneCloses ==
    /\ ka.pc = "run"
    /\ ka.done
    /\ ka' = [ka EXCEPT !.pc = "exit", !.client = "closed"]
    /\ UNCHANGED <<procVars, cfgVars, mainVars, tun, dev, helper, scp, conf, pump, sess, create>>

\* case <-done: return
KADone ==
    /\ ka.pc = "run"
    /\ ka.done
    /\ ka' = [ka EXCEPT !.pc = "exit"]
    /\ UNCHANGED <<procVars, cfgVars, mainVars, tun, dev, helper, scp, conf, pump, sess, create>>

\* Open returns: the deferred close(done) and close(openDone) run; doneAt
\* keeps where the task was
KACloseDone ==
    /\ ~ka.done
    /\ ka' = [ka EXCEPT !.done = TRUE, !.doneAt = ka.pc]
    /\ UNCHANGED <<procVars, cfgVars, mainVars, tun, dev, helper, scp, conf, pump, sess, create>>

\* cancel() of the context of Open
KACancel ==
    /\ ~ka.ctxDone
    /\ ka' = [ka EXCEPT !.ctxDone = TRUE]
    /\ UNCHANGED <<procVars, cfgVars, mainVars, tun, dev, helper, scp, conf, pump, sess, create>>

\* the watcher goroutine of Open: after ctx.Done() or openDone,
\* client.Close()
KAWatcher ==
    /\ ka.done \/ ka.ctxDone
    /\ ~ka.watcherClosed
    /\ ka' = [ka EXCEPT !.watcherClosed = TRUE]
    /\ UNCHANGED <<procVars, cfgVars, mainVars, tun, dev, helper, scp, conf, pump, sess, create>>

\* StartKeepalive(client, interval, countMax, logger, done) was called:
\* n := 0, the client is open
KAInit ==
    /\ euid = UserUID
    /\ setuid = TRUE
    /\ mutex = NoHolder
    /\ canceled = FALSE
    /\ rootBy = NoHolder
    /\ Enable = [t \in TunnelIds |-> FALSE]
    /\ KeepaliveInterval = [t \in TunnelIds |-> 1]
    /\ RemoteUploadDirectory = [t \in TunnelIds |-> ""]
    /\ ctxToken = TRUE
    /\ mainPc = "loop"
    /\ idx = 1
    /\ numberOfTunnels = 0
    /\ wg = 0
    /\ openAllErr = <<>>
    /\ tun = [t \in TunnelIds |-> InitTunnel]
    /\ dev = InitDev
    /\ helper = InitHelper
    /\ scp = InitScp
    /\ conf = InitConf
    /\ pump = InitPump
    /\ sess = InitSess
    /\ create = InitCreate
    /\ \E c \in 0..MaxCountMax : ka = [InitKA EXCEPT !.pc = "run", !.countMax = c]

KANext ==
    \/ KATick
    \/ KAReply
    \/ KARequestAborted
    \/ KADone
    \/ KACloseDone
    \/ KACancel
    \/ KAWatcher

KASpec == KAInit /\ [][KANext]_vars

\* the goroutines run when they can: the task leaves its select when done
\* is closed, a request on a closed client returns, the watcher closes the
\* client; nothing is assumed of the peer, of the cancellation and of the
\* return of Open
KAFairSpec ==
    /\ KASpec
    /\ WF_vars(KADone)
    /\ WF_vars(KARequestAborted)
    /\ WF_vars(KAWatcher)

(***************************************************************************)
(* Open called directly, on a context that may lack the sshtun value       *)
(***************************************************************************)

\* the remote_upload_directory values tried
UploadDirectories == {"", "/var/tmp"}

\* a caller of the package runs Open(ctx) of the first tunnel, with ctx made
\* by Context or not; there is no OpenAll and no worker
DirectInit ==
    /\ euid = UserUID
    /\ setuid \in BOOLEAN
    /\ mutex = NoHolder
    /\ canceled = FALSE
    /\ rootBy = NoHolder
    /\ Enable = [t \in TunnelIds |-> TRUE]
    /\ \E k \in {0, 1} : KeepaliveInterval = [t \in TunnelIds |-> k]
    /\ \E d \in UploadDirectories :
            RemoteUploadDirectory = [t \in TunnelIds |-> d]
    /\ ctxToken \in BOOLEAN
    /\ mainPc = "none"
    /\ idx = 1
    /\ numberOfTunnels = 0
    /\ wg = 0
    /\ openAllErr = <<>>
    /\ tun = [t \in TunnelIds |->
                IF t = 1 THEN [InitTunnel EXCEPT !.pc = "open"] ELSE InitTunnel]
    /\ ka = InitKA
    /\ dev = InitDev
    /\ helper = InitHelper
    /\ scp = InitScp
    /\ conf = InitConf
    /\ pump = InitPump
    /\ sess = InitSess
    /\ create = InitCreate

DirectNext ==
    \/ Cancel
    \/ \E t \in TunnelIds : OpenStep(t) \/ PeerStep(t) \/ Watcher(t)

DirectSpec == DirectInit /\ [][DirectNext]_vars

\* the goroutine of Open and its watcher goroutine run when they can;
\* nothing is assumed of the peer and of the cancellation
DirectFairSpec ==
    /\ DirectSpec
    /\ \A t \in TunnelIds : WF_vars(OpenStep(t)) /\ WF_vars(Watcher(t))

(***************************************************************************)
(* The TUN handle (package tun): Close and ConfigureInterface               *)
(***************************************************************************)

\* bound of TunSpec: the number of calls made on one handle
MaxCalls == 3

\* the strings given to ConfigureInterface, each with what net.ParseCIDR
\* reads in it: the form of the address, its dotted quad (<<>> if it has
\* none) and the prefix length
CIDRInputs ==
    << [text |-> "192.168.99.185/29", form |-> "v4",
        quad |-> <<192, 168, 99, 185>>, bits |-> 29],
       [text |-> "192.168.99.186/29", form |-> "v4",
        quad |-> <<192, 168, 99, 186>>, bits |-> 29],
       [text |-> "192.168.99.256/29", form |-> "v4",
        quad |-> <<192, 168, 99, 256>>, bits |-> 29],
       [text |-> "192.168.99.185/33", form |-> "v4",
        quad |-> <<192, 168, 99, 185>>, bits |-> 33],
       [text |-> "tun0", form |-> "none", quad |-> <<>>, bits |-> 0],
       [text |-> "fd00::1/64", form |-> "v6", quad |-> <<>>, bits |-> 64],
       [text |-> "::ffff:192.168.99.185/125", form |-> "v4in6",
        quad |-> <<192, 168, 99, 185>>, bits |-> 125] >>

\* net.ParseCIDR(s) returns no error: s is an address, a slash and a prefix
\* length, every octet is at most 255 and the prefix length at most the
\* number of bits of the address family
ParseCIDROK(c) ==
    /\ c.form # "none"
    /\ \A i \in DOMAIN c.quad : c.quad[i] \in 0..255
    /\ c.bits \in 0..(IF c.form = "v4" THEN 32 ELSE 128)

\* ipv4.To4(): the four bytes of an IPv4 or IPv4-mapped address, nil (<<>>)
\* for any other IPv6 address
To4(c) ==
    IF c.form \in {"v4", "v4in6"} THEN c.quad ELSE <<>>

\* one byte of a mask with its k leading bits set
MaskByte(k) == 256 - 2^(8 - k)

\* [4]byte(ipnet.Mask): the first four bytes of net.CIDRMask(bits, ...)
Mask4(c) ==
    [i \in 1..4 |->
        LET k == c.bits - 8 * (i - 1)
        IN MaskByte(IF k < 0 THEN 0 ELSE IF k > 8 THEN 8 ELSE k)]

\* t.ConfigureInterface(s): parse, To4, socket, then the two requests
\* SIOCSIFADDR and SIOCSIFNETMASK, each of which the kernel may refuse (it
\* refuses when the device is gone)
TUNConfigureInterface ==
    /\ dev.file # "nil"
    /\ dev.calls < MaxCalls
    /\ \E i \in DOMAIN CIDRInputs, okSocket, okAddr, okMask \in BOOLEAN :
        LET c == CIDRInputs[i]
            called == [dev EXCEPT !.calls = @ + 1,
                                  !.lastOp = "configure",
                                  !.lastIn = i]
        IN dev' =
            IF ~ParseCIDROK(c)
            THEN [called EXCEPT !.lastErr = "ParseError"]
            ELSE IF To4(c) = <<>>
            THEN [called EXCEPT !.lastErr = "ErrInvalidAddress"]
            ELSE IF ~okSocket
            THEN [called EXCEPT !.lastErr = "socket"]
            ELSE IF ~(okAddr /\ dev.fd = "tun")
            THEN [called EXCEPT !.requests = @ + 1,
                                !.lastErr = "SIOCSIFADDR"]
            ELSE IF ~okMask
            THEN [called EXCEPT !.requests = @ + 2,
                                !.addr = To4(c),
                                !.lastErr = "SIOCSIFNETMASK"]
            ELSE [called EXCEPT !.requests = @ + 2,
                                !.addr = To4(c),
                                !.mask = Mask4(c),
                                !.lastErr = "nil"]
    /\ UNCHANGED <<procVars, cfgVars, mainVars, tun, ka, helper, scp, conf, pump, sess, create>>

\* e1 := t.File.Close(): nil for an open file, os.ErrClosed afterwards
FileClose(file) ==
    IF file = "open" THEN "nil" ELSE "ErrClosed"

\* close(2) on the descriptor number Fd: the number is given up, and when
\* it named another file of the process that file is the one closed
CloseFd(d) ==
    [d EXCEPT !.fd = "none",
              !.otherClosed = IF d.fd = "other" THEN TRUE ELSE @]

\* t.Close().  File was made of the blocking descriptor Fd by os.NewFile,
\* so File.Close marks the file closed and returns nil, and closes the
\* descriptor itself only when no Read or Write on the file is in
\* progress; otherwise the descriptor is closed when that call returns.
\* When File.Close fails (the file is closed already), syscall.Close(t.Fd)
\* is tried on the number: it closes whatever the number names, or fails
\* with EBADF
Close ==
    /\ dev.file # "nil"
    /\ dev.calls < MaxCalls
    /\ LET called == [dev EXCEPT !.calls = @ + 1, !.lastOp = "close"]
       IN dev' =
            IF FileClose(dev.file) = "nil"
            THEN [(IF dev.reader THEN called ELSE CloseFd(called))
                    EXCEPT !.file = "closed",
                           !.lastErr = "nil",
                           !.closes = Append(@, "nil")]
            ELSE IF dev.fd # "none"
            THEN [CloseFd(called) EXCEPT !.lastErr = "e1",
                                         !.closes = Append(@, "e1")]
            ELSE [called EXCEPT !.lastErr = "e1e2",
                                !.closes = Append(@, "e1e2")]
    /\ UNCHANGED <<procVars, cfgVars, mainVars, tun, ka, helper, scp, conf, pump, sess, create>>

\* a goroutine calls Read on the open file and blocks until a packet comes
\* (the io.Copy goroutines of StartTunneling and of the helper)
ReadStarts ==
    /\ dev.file = "open"
    /\ ~dev.reader
    /\ dev' = [dev EXCEPT !.reader = TRUE]
    /\ UNCHANGED <<procVars, cfgVars, mainVars, tun, ka, helper, scp, conf, pump, sess, create>>

\* the Read returns; when the file was closed meanwhile the descriptor
\* number is closed now
ReadReturns ==
    /\ dev.reader
    /\ dev' = [(IF dev.file = "closed" /\ dev.fd # "none"
                THEN CloseFd(dev) ELSE dev) EXCEPT !.reader = FALSE]
    /\ UNCHANGED <<procVars, cfgVars, mainVars, tun, ka, helper, scp, conf, pump, sess, create>>

\* the process opens another file or socket and the kernel gives it the
\* lowest free descriptor number, the one the closed TUN had
FdReused ==
    /\ dev.file = "closed"
    /\ dev.fd = "none"
    /\ dev' = [dev EXCEPT !.fd = "other"]
    /\ UNCHANGED <<procVars, cfgVars, mainVars, tun, ka, helper, scp, conf, pump, sess, create>>

\* no OpenAll is running
NoOpenAll ==
    /\ euid = ROOT
    /\ setuid = FALSE
    /\ mutex = NoHolder
    /\ canceled = FALSE
    /\ rootBy = NoHolder
    /\ Enable = [t \in TunnelIds |-> FALSE]
    /\ KeepaliveInterval = [t \in TunnelIds |-> 0]
    /\ RemoteUploadDirectory = [t \in TunnelIds |-> ""]
    /\ ctxToken = TRUE
    /\ mainPc = "none"
    /\ idx = 1
    /\ numberOfTunnels = 0
    /\ wg = 0
    /\ openAllErr = <<>>
    /\ tun = [t \in TunnelIds |-> InitTunnel]
    /\ ka = InitKA

\* CreateTUN returned the handle: File is open on descriptor Fd
TunInit ==
    /\ NoOpenAll
    /\ dev = [InitDev EXCEPT !.file = "open", !.fd = "tun"]
    /\ helper = InitHelper
    /\ scp = InitScp
    /\ conf = InitConf
    /\ pump = InitPump
    /\ sess = InitSess
    /\ create = InitCreate

TunNext ==
    \/ TUNConfigureInterface
    \/ Close
    \/ ReadStarts
    \/ ReadReturns
    \/ FdReused

TunSpec == TunInit /\ [][TunNext]_vars

(***************************************************************************)
(* The remote helper (cmd/tunreadwriter)                                   *)
(***************************************************************************)

\* strings.TrimSpace on the values tried for -dev and -net
TrimSpace(s) == IF s = " " THEN "" ELSE s

\* the removal as it would be if it was deferred after the TUN was created
RemovesSelfAfterTUN(h) == h.removeDeferred /\ h.tunOpen

\* the deferred func of tunreadwriter runs os.Remove(os.Args[0])
RemovesSelf(h) == h.removeDeferred

\* tunreadwriter() returned and main ended the process with exit code
\* `code`: the deferred calls ran, localTUN.Close() (when the TUN was made)
\* and then the removal
HelperReturned(h, code) ==
    [h EXCEPT !.pc = "exited",
              !.exit = code,
              !.tunOpen = FALSE,
              !.exe = IF RemovesSelf(h) THEN FALSE ELSE @]

\* if deleteMyself { defer ... }; device and network are trimmed and must
\* not be empty
HelperArgs ==
    /\ helper.pc = "start"
    /\ LET h == [helper EXCEPT !.removeDeferred = helper.deleteMyself,
                               !.device = TrimSpace(@),
                               !.network = TrimSpace(@)]
       IN helper' = IF h.device = "" \/ h.network = ""
                    THEN HelperReturned(h, "1")
                    ELSE [h EXCEPT !.pc = "lookup"]
    /\ UNCHANGED <<procVars, cfgVars, mainVars, tun, ka, dev, scp, conf, pump, sess, create>>

\* usr, err := user.Lookup(username): the Uid and Gid of the account that
\* the name tried for -user has
LookupUser(username) == [Uid |-> 1001, Gid |-> 1001]

\* grp, err := user.LookupGroup(groupname): the Gid of the group that the
\* name tried for -group has
LookupGroup(groupname) == [Gid |-> 50]

\* if uid > 0 { ioctl TUNSETOWNER }: the owner the new device has
TUNSetOwner(uid) == IF uid > 0 THEN uid ELSE NoUID

\* if gid > 0 { ioctl TUNSETGROUP }: the group the new device has
TUNSetGroup(gid) == IF gid > 0 THEN gid ELSE NoUID

\* user.Lookup(username) and user.LookupGroup(groupname) when given: the
\* package variables uid and gid get the user's Uid and Gid, and gid then
\* the group's Gid
HelperLookup ==
    /\ helper.pc = "lookup"
    /\ helper' = IF helper.user = "unknown" \/ helper.group = "unknown"
                 THEN HelperReturned(helper, "1")
                 ELSE [helper EXCEPT
                         !.pc = "createTUN",
                         !.uid = IF helper.user = "none"
                                 THEN @ ELSE LookupUser(helper.user).Uid,
                         !.gid = IF helper.group # "none"
                                 THEN LookupGroup(helper.group).Gid
                                 ELSE IF helper.user # "none"
                                      THEN LookupUser(helper.user).Gid
                                      ELSE @]
    /\ UNCHANGED <<procVars, cfgVars, mainVars, tun, ka, dev, scp, conf, pump, sess, create>>

\* localTUN, err := tun.CreateTUN(device, mtu, 0, 0); defer localTUN.Close()
HelperCreateTUN ==
    /\ helper.pc = "createTUN"
    /\ \E ok \in BOOLEAN :
        helper' = IF ok
                  THEN [helper EXCEPT !.pc = "configure",
                                      !.tunOpen = TRUE,
                                      !.owner = TUNSetOwner(0),
                                      !.ownerGroup = TUNSetGroup(0)]
                  ELSE HelperReturned(helper, "1")
    /\ UNCHANGED <<procVars, cfgVars, mainVars, tun, ka, dev, scp, conf, pump, sess, create>>

\* localTUN.ConfigureInterface(network)
HelperConfigure ==
    /\ helper.pc = "configure"
    /\ \E ok \in BOOLEAN :
        helper' = IF ok
                  THEN [helper EXCEPT !.pc = "linkup"]
                  ELSE HelperReturned(helper, "1")
    /\ UNCHANGED <<procVars, cfgVars, mainVars, tun, ka, dev, scp, conf, pump, sess, create>>

\* localTUN.LinkUp(); then the two copy goroutines and the goroutine that
\* waits for the end are started
HelperLinkUp ==
    /\ helper.pc = "linkup"
    /\ \E ok \in BOOLEAN :
        helper' = IF ok
                  THEN [helper EXCEPT !.pc = "run"]
                  ELSE HelperReturned(helper, "1")
    /\ UNCHANGED <<procVars, cfgVars, mainVars, tun, ka, dev, scp, conf, pump, sess, create>>

\* signal.Notify(sigCh, syscall.SIGINT, syscall.SIGTERM)
HelperNotify ==
    /\ helper.pc = "run"
    /\ ~helper.notify
    /\ helper' = [helper EXCEPT !.notify = TRUE]
    /\ UNCHANGED <<procVars, cfgVars, mainVars, tun, ka, dev, scp, conf, pump, sess, create>>

\* SIGINT or SIGTERM arrives: it is queued in sigCh once Notify was called,
\* before that it ends the process at once (no deferred call runs; the
\* kernel closes the TUN)
HelperSignal ==
    /\ helper.pc \notin {"idle", "exited"}
    /\ ~helper.sig
    /\ helper' = IF helper.notify
                 THEN [helper EXCEPT !.sig = TRUE]
                 ELSE [helper EXCEPT !.pc = "exited",
                                     !.exit = "signal",
                                     !.tunOpen = FALSE]
    /\ UNCHANGED <<procVars, cfgVars, mainVars, tun, ka, dev, scp, conf, pump, sess, create>>

\* io.Copy(localTUN.File, os.Stdin) returns; defer close(fromSTDINdone)
HelperStdinEnds ==
    /\ helper.pc = "run"
    /\ ~helper.fromSTDINdone
    /\ helper' = [helper EXCEPT !.fromSTDINdone = TRUE]
    /\ UNCHANGED <<procVars, cfgVars, mainVars, tun, ka, dev, scp, conf, pump, sess, create>>

\* io.Copy(os.Stdout, localTUN.File) ends.  On an error of the read or a
\* plain error of the write it returns; defer close(fromTUNdone).  On a
\* write to a stdout whose reader is gone (EPIPE on descriptor 1) the
\* process is ended by SIGPIPE at once: no deferred call runs, the kernel
\* closes the TUN
HelperTUNEnds ==
    /\ helper.pc = "run"
    /\ ~helper.fromTUNdone
    /\ \E brokenPipe \in BOOLEAN :
        helper' = IF brokenPipe
                  THEN [helper EXCEPT !.pc = "exited",
                                      !.exit = "signal",
                                      !.tunOpen = FALSE]
                  ELSE [helper EXCEPT !.fromTUNdone = TRUE]
    /\ UNCHANGED <<procVars, cfgVars, mainVars, tun, ka, dev, scp, conf, pump, sess, create>>

\* the select as it would be if it waited for both copies
SelectBothCopies(h) == h.sig \/ (h.fromTUNdone /\ h.fromSTDINdone)

\* select { case sig := <-sigCh: case <-fromTUNdone: case <-fromSTDINdone: }
SelectReady(h) == h.sig \/ h.fromTUNdone \/ h.fromSTDINdone

\* the select is left; signal.Stop(sigCh); defer close(done)
HelperSelect ==
    /\ helper.pc = "run"
    /\ helper.notify
    /\ ~helper.done
    /\ SelectReady(helper)
    /\ helper' = [helper EXCEPT !.done = TRUE]
    /\ UNCHANGED <<procVars, cfgVars, mainVars, tun, ka, dev, scp, conf, pump, sess, create>>

\* <-done; return nil
HelperWaitDone ==
    /\ helper.pc = "run"
    /\ helper.done
    /\ helper' = HelperReturned(helper, "0")
    /\ UNCHANGED <<procVars, cfgVars, mainVars, tun, ka, dev, scp, conf, pump, sess, create>>

\* the helper was started with its flags parsed; its executable exists
HelperInit ==
    /\ NoOpenAll
    /\ dev = InitDev
    /\ scp = InitScp
    /\ conf = InitConf
    /\ pump = InitPump
    /\ sess = InitSess
    /\ create = InitCreate
    /\ \E del \in BOOLEAN, d \in {"", " ", "tun0"}, n \in {"", "172.16.0.3/24"},
          u, g \in {"none", "known", "unknown"} :
        helper = [InitHelper EXCEPT !.pc = "start",
                                    !.deleteMyself = del,
                                    !.device = d,
                                    !.network = n,
                                    !.user = u,
                                    !.group = g,
                                    !.exe = TRUE]

\* the steps of the helper's own goroutines
HelperStep ==
    \/ HelperArgs
    \/ HelperLookup
    \/ HelperCreateTUN
    \/ HelperConfigure
    \/ HelperLinkUp
    \/ HelperNotify
    \/ HelperSelect
    \/ HelperWaitDone

\* what happens to the helper from outside
HelperEvent ==
    \/ HelperSignal
    \/ HelperStdinEnds
    \/ HelperTUNEnds

HelperNext == HelperStep \/ HelperEvent

\* a runnable goroutine of the helper runs; nothing is assumed of signals
\* and of the ends of the copies
HelperSpec == HelperInit /\ [][HelperNext]_vars /\ WF_vars(HelperStep)

(***************************************************************************)
(* The helper upload (UploadHelperToRemote) and its copy session           *)
(***************************************************************************)

\* the longest embedded helper tried, in bytes
MaxSize == 3

\* the byte values tried in the embedded helper
Bytes == {"00", "7f"}

\* the embedded helper binaries tried (//go:embed, var tunreadwriter []byte)
Binaries == UNION {[1..n -> Bytes] : n \in 1..MaxSize}

\* the names tried for what time.Now() and crand.Int63() give
RandomFilenames ==
    {randomFilename, "tunreadwriter-20060102T150406-2"}

\* %d of fmt.Fprintf for the sizes tried
Itoa(n) == <<"0", "1", "2", "3", "4", "5">>[n + 1]

\* fmt.Fprintf(remoteIN, "C0755 %d %s\n", size, randomFilename)
ScpHeader(size, name) == <<"C0755 ", Itoa(size), " ", name, "\n">>

\* the upload as it would be without the closing byte
ScpNoTerminator == <<>>

\* fmt.Fprint(remoteIN, "\x00")
ScpTerminator == <<"00">>

\* a Write on the session's stdin: the bytes go out unless the channel was
\* closed; the error of the Write is not looked at
ScpWrite(s, bytes) == IF s.broken THEN s.stdin ELSE s.stdin \o bytes

\* UploadHelperToRemote returned err: defer session.Close()
ScpReturned(s, err) ==
    [s EXCEPT !.pc = "returned", !.result = err, !.broken = TRUE]

\* client.NewSession(), the directory default, the name and the size, the
\* stdout and stderr pipes, and the goroutine is started
ScpStart ==
    /\ scp.pc = "start"
    /\ \E ok \in BOOLEAN :
        scp' = IF ok
               THEN [scp EXCEPT !.pc = "run",
                                !.gpc = "pipe",
                                !.remoteDirectory = RemoteDirectory(@),
                                !.size = Len(scp.tunreadwriter)]
               ELSE [scp EXCEPT !.pc = "returned", !.result = "err"]
    /\ UNCHANGED <<procVars, cfgVars, mainVars, tun, ka, dev, helper, conf, pump, sess, create>>

\* session.StdinPipe() of x/crypto/ssh gives the pipe unless the session
\* was started ("StdinPipe after process started")
StdinPipeOk == ~scp.started

\* goroutine: remoteIN, err := session.StdinPipe(); on an error (the session
\* was started first) errCh <- err is offered; defer remoteIN.Close()
ScpStdinPipe ==
    /\ scp.gpc = "pipe"
    /\ scp' = IF StdinPipeOk
              THEN [scp EXCEPT !.gpc = "header"]
              ELSE [scp EXCEPT !.gpc = "send", !.errCh = "err"]
    /\ UNCHANGED <<procVars, cfgVars, mainVars, tun, ka, dev, helper, conf, pump, sess, create>>

\* goroutine: fmt.Fprintf(remoteIN, "C0755 %d %s\n", size, randomFilename)
ScpWriteHeader ==
    /\ scp.gpc = "header"
    /\ scp' = [scp EXCEPT
                 !.gpc = "copy",
                 !.stdin = ScpWrite(scp, ScpHeader(scp.size, scp.randomFilename))]
    /\ UNCHANGED <<procVars, cfgVars, mainVars, tun, ka, dev, helper, conf, pump, sess, create>>

\* goroutine: io.CopyN(remoteIN, f, int64(size)), a byte at a time; it ends
\* after size bytes or at the first Write that fails
ScpCopyN ==
    /\ scp.gpc = "copy"
    /\ scp' = IF scp.copied < scp.size /\ ~scp.broken
              THEN [scp EXCEPT
                      !.copied = @ + 1,
                      !.stdin = ScpWrite(scp, <<scp.tunreadwriter[scp.copied + 1]>>)]
              ELSE [scp EXCEPT !.gpc = "zero"]
    /\ UNCHANGED <<procVars, cfgVars, mainVars, tun, ka, dev, helper, conf, pump, sess, create>>

\* goroutine: fmt.Fprint(remoteIN, "\x00"); then the deferred
\* remoteIN.Close() and close(errCh)
ScpWriteZero ==
    /\ scp.gpc = "zero"
    /\ scp' = [scp EXCEPT !.gpc = "done",
                          !.stdin = ScpWrite(scp, ScpTerminator),
                          !.stdinClosed = TRUE,
                          !.errCh = "closed"]
    /\ UNCHANGED <<procVars, cfgVars, mainVars, tun, ka, dev, helper, conf, pump, sess, create>>

\* the remote end or the network closes the channel of the session
ScpChannelCloses ==
    /\ scp.pc = "run"
    /\ ~scp.broken
    /\ scp' = [scp EXCEPT !.broken = TRUE]
    /\ UNCHANGED <<procVars, cfgVars, mainVars, tun, ka, dev, helper, conf, pump, sess, create>>

\* session.Run(s.RemoteSCP + " -t " + remoteDirectory): Session.Start sends
\* the command; the caller does not wait for the goroutine before it
ScpRunStarts ==
    /\ scp.pc = "run"
    /\ ~scp.started
    /\ scp' = [scp EXCEPT !.started = TRUE]
    /\ UNCHANGED <<procVars, cfgVars, mainVars, tun, ka, dev, helper, conf, pump, sess, create>>

\* session.Run returns: with the error of Start, or after the command was
\* started with the exit status it had or with the error of the connection
ScpRunReturns ==
    /\ scp.pc = "run"
    /\ scp.run = "none"
    /\ \E err \in {"nil", "err"} :
        /\ err = "nil" => scp.started
        /\ scp' = IF err = "nil"
                  THEN [scp EXCEPT !.run = "nil"]
                  ELSE ScpReturned([scp EXCEPT !.run = "err"], "err")
    /\ UNCHANGED <<procVars, cfgVars, mainVars, tun, ka, dev, helper, conf, pump, sess, create>>

\* if err := <-errCh; err != nil { return }: the error the goroutine
\* offers is received (the goroutine then closes errCh), or errCh is closed;
\* s.remoteTunReadWriter = filepath.Join(remoteDirectory, randomFilename)
ScpReceive ==
    /\ scp.pc = "run"
    /\ scp.run = "nil"
    /\ scp.errCh # "open"
    /\ scp' = IF scp.errCh = "err"
              THEN ScpReturned([scp EXCEPT !.gpc = "done", !.errCh = "closed"],
                               "err")
              ELSE ScpReturned(
                     [scp EXCEPT !.remoteTunReadWriter =
                                    <<scp.remoteDirectory, scp.randomFilename>>],
                     "nil")
    /\ UNCHANGED <<procVars, cfgVars, mainVars, tun, ka, dev, helper, conf, pump, sess, create>>

\* UploadHelperToRemote(client, remoteDirectory) is called
ScpInit ==
    /\ NoOpenAll
    /\ dev = InitDev
    /\ helper = InitHelper
    /\ conf = InitConf
    /\ pump = InitPump
    /\ sess = InitSess
    /\ create = InitCreate
    /\ \E d \in UploadDirectories, name \in RandomFilenames, b \in Binaries :
        scp = [InitScp EXCEPT !.pc = "start",
                              !.remoteDirectory = d,
                              !.randomFilename = name,
                              !.tunreadwriter = b]

ScpNext ==
    \/ ScpStart
    \/ ScpStdinPipe
    \/ ScpWriteHeader
    \/ ScpCopyN
    \/ ScpWriteZero
    \/ ScpChannelCloses
    \/ ScpRunStarts
    \/ ScpRunReturns
    \/ ScpReceive

ScpSpec == ScpInit /\ [][ScpNext]_vars

(***************************************************************************)
(* The configuration file (SaveConfig, LoadConfig, Duration)               *)
(*                                                                         *)
(* A Go string is a sequence of pieces: a piece is a run of valid UTF-8    *)
(* text, or "\\xff", one byte that is not valid UTF-8.  A Duration is a    *)
(* number of milliseconds.                                                 *)
(***************************************************************************)

\* the most tunnels in a tunnel set tried
MaxTunnels == 2

\* encoding/json writes a string coerced to valid UTF-8: each invalid byte
\* becomes the replacement rune U+FFFD
CoerceUTF8(s) == [i \in DOMAIN s |-> IF s[i] = "\\xff" THEN "\\ufffd" ELSE s[i]]

\* time.Duration.String() as it would be if it only gave whole minutes from
\* one minute on ("<n>m")
DurationStringMinutes(d) ==
    LET u == IF d < 0 THEN 0 - d ELSE d
    IN  [neg |-> d < 0,
         parts |-> IF u < 60000
                   THEN <<[n |-> u \div 1000, frac |-> u % 1000, unit |-> "s"]>>
                   ELSE <<[n |-> u \div 60000, frac |-> 0, unit |-> "m"]>>]

\* time.Duration.String(): "0s", below one second "<n>ms", else hours and
\* minutes when there are any and the seconds with their fraction
DurationString(d) ==
    LET u == IF d < 0 THEN 0 - d ELSE d
        h == u \div 3600000
        m == (u % 3600000) \div 60000
        sec == [n |-> (u % 60000) \div 1000, frac |-> u % 1000, unit |-> "s"]
    IN  [neg |-> d < 0,
         parts |-> IF u = 0 THEN <<[n |-> 0, frac |-> 0, unit |-> "s"]>>
                   ELSE IF u < 1000
                        THEN <<[n |-> u, frac |-> 0, unit |-> "ms"]>>
                   ELSE IF h > 0
                        THEN <<[n |-> h, frac |-> 0, unit |-> "h"],
                               [n |-> m, frac |-> 0, unit |-> "m"], sec>>
                   ELSE IF m > 0
                        THEN <<[n |-> m, frac |-> 0, unit |-> "m"], sec>>
                   ELSE <<sec>>]

\* the milliseconds of one unit of time.ParseDuration
UnitMs(unit) ==
    CASE unit = "ms" -> 1
      [] unit = "s" -> 1000
      [] unit = "m" -> 60000
      [] unit = "h" -> 3600000

RECURSIVE SumParts(_)
SumParts(parts) ==
    IF parts = <<>> THEN 0
    ELSE LET p == Head(parts)
         IN  p.n * UnitMs(p.unit) + (p.frac * UnitMs(p.unit)) \div 1000
                + SumParts(Tail(parts))

\* time.ParseDuration: the sum of the numbers times their units, negated
\* after a leading "-"
ParseDuration(str) ==
    IF str.neg THEN 0 - SumParts(str.parts) ELSE SumParts(str.parts)

\* Duration.MarshalJSON: the JSON string of time.Duration(d).String()
DurationMarshalJSON(d) == [type |-> "string", v |-> DurationString(d)]

\* Duration.UnmarshalJSON: a JSON number is the Duration itself, a JSON
\* string goes through time.ParseDuration
DurationUnmarshalJSON(j) ==
    IF j.type = "number" THEN j.v ELSE ParseDuration(j.v)

\* the fields of SSHTUN that are written to the file, by their kind; the
\* keys of the file are the fields' json tags, one for each field
StringFields ==
    {"Name", "Comment", "Protocol", "LocalNetwork", "LocalTunDevice", "Remote",
     "RemoteNetwork", "RemoteTunDevice", "RemoteUser", "RemoteUploadDirectory",
     "RemoteSCP"}
IntFields == {"LocalMTU", "RemoteMTU", "KeepaliveMaxErrorCount"}
BoolFields == {"UseSSHAgent", "Enable"}

\* the fields tagged omitempty
OmitEmpty == {"Comment"}

\* const USR_BIN_SCP
USR_BIN_SCP == <<"/usr/bin/scp">>

\* the zero value of SSHTUN, into which a tunnel of the file is decoded
ZeroTunnel ==
    [Name |-> <<>>, Comment |-> <<>>, Protocol |-> <<>>, LocalNetwork |-> <<>>,
     LocalTunDevice |-> <<>>, LocalMTU |-> 0, Remote |-> <<>>,
     RemoteNetwork |-> <<>>, RemoteTunDevice |-> <<>>, RemoteMTU |-> 0,
     RemoteUser |-> <<>>, UseSSHAgent |-> FALSE, PrivateKeyFiles |-> <<>>,
     RemoteUploadDirectory |-> <<>>, RemoteSCP |-> <<>>, Enable |-> FALSE,
     KeepaliveInterval |-> 0, KeepaliveMaxErrorCount |-> 0]

\* NewSecureShellTunneler: the tunnel with the defaults
DefaultTunnel ==
    [ZeroTunnel EXCEPT !.Name = <<"example">>,
                       !.Protocol = <<"tcp4">>,
                       !.LocalNetwork = <<"172.18.0.1/24">>,
                       !.LocalTunDevice = <<"tun0">>,
                       !.Remote = <<"localhost:22">>,
                       !.RemoteNetwork = <<"172.18.0.2/24">>,
                       !.RemoteTunDevice = <<"tun0">>,
                       !.RemoteUser = <<"user">>,
                       !.PrivateKeyFiles = << <<"~/.ssh/id_rsa">> >>,
                       !.RemoteSCP = USR_BIN_SCP,
                       !.KeepaliveInterval = 120000,
                       !.KeepaliveMaxErrorCount = 5]

\* the tunnels tried: the default and tunnels that differ from it
TunnelSamples ==
    {DefaultTunnel,
     [DefaultTunnel EXCEPT !.Name = <<"example2">>, !.Comment = <<"second">>,
                           !.Enable = TRUE, !.UseSSHAgent = TRUE],
     [DefaultTunnel EXCEPT !.Name = <<"ex", "\\xff">>],
     [DefaultTunnel EXCEPT !.Comment = <<"\\ufffd">>],
     [DefaultTunnel EXCEPT !.LocalMTU = 1500, !.RemoteMTU = 1400,
                           !.KeepaliveMaxErrorCount = 0],
     [DefaultTunnel EXCEPT !.RemoteSCP = <<>>, !.RemoteUser = <<>>,
                           !.PrivateKeyFiles = <<>>],
     [DefaultTunnel EXCEPT !.KeepaliveInterval = 0],
     [DefaultTunnel EXCEPT !.KeepaliveInterval = 1],
     [DefaultTunnel EXCEPT !.KeepaliveInterval = 1500],
     [DefaultTunnel EXCEPT !.KeepaliveInterval = 90000],
     [DefaultTunnel EXCEPT !.KeepaliveInterval = 3723004],
     [DefaultTunnel EXCEPT !.KeepaliveInterval = 0 - 90000]}

\* the tunnel sets tried (Tunnels.Tunnels)
TunnelSets == UNION {[1..n -> TunnelSamples] : n \in 0..MaxTunnels}

\* json.Marshal of one field of kind k
MarshalField(k, x) ==
    IF k \in StringFields
    THEN IF k \in OmitEmpty /\ x = <<>>
         THEN [type |-> "absent", v |-> <<>>]
         ELSE [type |-> "string", v |-> CoerceUTF8(x)]
    ELSE IF k \in IntFields THEN [type |-> "number", v |-> x]
    ELSE IF k \in BoolFields THEN [type |-> "bool", v |-> x]
    ELSE IF k = "PrivateKeyFiles"
         THEN [type |-> "array", v |-> [i \in DOMAIN x |-> CoerceUTF8(x[i])]]
    ELSE DurationMarshalJSON(x)

\* encoder.Encode(t): the array "tunnels" of one object for each tunnel, in
\* the order of the slice
Encode(T) ==
    [i \in DOMAIN T |-> [k \in DOMAIN T[i] |-> MarshalField(k, T[i][k])]]

\* json.Unmarshal of the value j into the field k
UnmarshalField(k, j) ==
    IF j.type = "absent" THEN ZeroTunnel[k]
    ELSE IF k = "KeepaliveInterval" THEN DurationUnmarshalJSON(j)
    ELSE j.v

\* json.NewDecoder(f).Decode(&config), and an empty RemoteSCP becomes
\* USR_BIN_SCP
Decode(file) ==
    [i \in DOMAIN file |->
        LET t == [k \in DOMAIN ZeroTunnel |-> UnmarshalField(k, file[i][k])]
        IN  [t EXCEPT !.RemoteSCP = IF @ = <<>> THEN USR_BIN_SCP ELSE @]]

\* t.SaveConfig(configJson): the directory is made, the file is created or
\* truncated and the tunnel set is written to it
SaveConfig ==
    /\ conf.pc = "start"
    /\ \E ok \in BOOLEAN :
        conf' = IF ok
                THEN [conf EXCEPT !.pc = "saved", !.file = Encode(conf.T)]
                ELSE [conf EXCEPT !.pc = "failed"]
    /\ UNCHANGED <<procVars, cfgVars, mainVars, tun, ka, dev, helper, scp, pump, sess, create>>

\* LoadConfig(configJson, logger) on the file that was saved
LoadConfig ==
    /\ conf.pc = "saved"
    /\ \E ok \in BOOLEAN :
        conf' = IF ok
                THEN [conf EXCEPT !.pc = "loaded", !.loaded = Decode(conf.file)]
                ELSE [conf EXCEPT !.pc = "failed"]
    /\ UNCHANGED <<procVars, cfgVars, mainVars, tun, ka, dev, helper, scp, pump, sess, create>>

\* a tunnel set is in memory
ConfigInit ==
    /\ NoOpenAll
    /\ dev = InitDev
    /\ helper = InitHelper
    /\ scp = InitScp
    /\ pump = InitPump
    /\ sess = InitSess
    /\ create = InitCreate
    /\ \E T \in TunnelSets : conf = [InitConf EXCEPT !.pc = "start", !.T = T]

ConfigNext == SaveConfig \/ LoadConfig

ConfigSpec == ConfigInit /\ [][ConfigNext]_vars

(***************************************************************************)
(* The byte pump (StartTunneling) and the return of Open                   *)
(*                                                                         *)
(* pump.toTUN is the goroutine io.Copy(localTUN.File, remoteOUT),          *)
(* pump.toRemote the goroutine io.Copy(remoteIN, localTUN.File): "read"    *)
(* is inside the Read of its source, "write" before the Write to its       *)
(* destination, "done" returned.  pump.file is localTUN.File as os.File    *)
(* sees it, pump.fd the descriptor in the kernel.                          *)
(***************************************************************************)

\* the most packets tried in each direction
MaxPackets == 2

\* StartTunneling returned and Open with it: the deferred remoteIN.Close()
\* and session.Close(), close(openDone), localTUN.Close().  File is on a
\* blocking descriptor (CreateTUN: syscall.Open without O_NONBLOCK), so
\* File.Close marks it closed and the descriptor is closed at once only
\* when no Read is inside it
PumpReturned(p) ==
    [p EXCEPT !.pc = "returned",
              !.remoteIN = IF @ = "open" THEN "closed" ELSE @,
              !.file = "closed",
              !.fd = IF p.toRemote = "read" THEN @ ELSE "closed"]

\* NewSession, the pipes, session.Start(cmd), and the two goroutines are
\* started; on an error StartTunneling returns before them
PumpStart ==
    /\ pump.pc = "start"
    /\ \E ok \in BOOLEAN :
        pump' = IF ok /\ pump.client = "open"
                THEN [pump EXCEPT !.pc = "wait",
                                  !.session = "run",
                                  !.remoteIN = "open",
                                  !.toTUN = "read",
                                  !.toRemote = "read"]
                ELSE PumpReturned(pump)
    /\ UNCHANGED <<procVars, cfgVars, mainVars, tun, ka, dev, helper, scp, conf, sess, create>>

\* remoteOUT.Read returns bytes the remote helper wrote
PumpRemoteOut ==
    /\ pump.toTUN = "read"
    /\ pump.client = "open"
    /\ pump.session = "run"
    /\ pump.in < MaxPackets
    /\ pump' = [pump EXCEPT !.toTUN = "write", !.in = @ + 1]
    /\ UNCHANGED <<procVars, cfgVars, mainVars, tun, ka, dev, helper, scp, conf, sess, create>>

\* localTUN.File.Write: the packet goes to the device and the copy reads
\* on, or the file is closed and io.Copy returns the error
PumpWriteTUN ==
    /\ pump.toTUN = "write"
    /\ pump' = [pump EXCEPT !.toTUN = IF pump.file = "open" THEN "read" ELSE "done"]
    /\ UNCHANGED <<procVars, cfgVars, mainVars, tun, ka, dev, helper, scp, conf, sess, create>>

\* remoteOUT.Read returns EOF or an error: the remote command ended or the
\* client was closed; io.Copy returns
PumpRemoteOutEnds ==
    /\ pump.toTUN = "read"
    /\ pump.client = "closed" \/ pump.session = "ended"
    /\ pump' = [pump EXCEPT !.toTUN = "done"]
    /\ UNCHANGED <<procVars, cfgVars, mainVars, tun, ka, dev, helper, scp, conf, sess, create>>

\* a packet is routed to the TUN device: the read(2) that localTUN.File.Read
\* is inside returns it.  When File.Close was called meanwhile, this Read
\* was the last user of the file and the descriptor is closed now
PumpPacket ==
    /\ pump.toRemote = "read"
    /\ pump.out < MaxPackets
    /\ pump' = [pump EXCEPT !.toRemote = "write",
                            !.out = @ + 1,
                            !.fd = IF pump.file = "closed" THEN "closed" ELSE @]
    /\ UNCHANGED <<procVars, cfgVars, mainVars, tun, ka, dev, helper, scp, conf, sess, create>>

\* remoteIN.Write: on a closed pipe or client io.Copy returns the error;
\* else the copy goes on with the next localTUN.File.Read, which returns
\* an error at once when the file is closed
PumpWriteRemote ==
    /\ pump.toRemote = "write"
    /\ pump' = [pump EXCEPT !.toRemote =
                    IF pump.remoteIN = "closed" \/ pump.client = "closed"
                       \/ pump.file = "closed"
                    THEN "done" ELSE "read"]
    /\ UNCHANGED <<procVars, cfgVars, mainVars, tun, ka, dev, helper, scp, conf, sess, create>>

\* the remote command ends
PumpSessionEnds ==
    /\ pump.session = "run"
    /\ pump.client = "open"
    /\ pump' = [pump EXCEPT !.session = "ended"]
    /\ UNCHANGED <<procVars, cfgVars, mainVars, tun, ka, dev, helper, scp, conf, sess, create>>

\* session.Wait() returns: the remote command ended or the client was
\* closed; StartTunneling and Open return
PumpWaitReturns ==
    /\ pump.pc = "wait"
    /\ pump.session = "ended" \/ pump.client = "closed"
    /\ pump' = PumpReturned(pump)
    /\ UNCHANGED <<procVars, cfgVars, mainVars, tun, ka, dev, helper, scp, conf, sess, create>>

\* cancel() of the context of Open
PumpCancel ==
    /\ ~pump.canceled
    /\ pump' = [pump EXCEPT !.canceled = TRUE]
    /\ UNCHANGED <<procVars, cfgVars, mainVars, tun, ka, dev, helper, scp, conf, sess, create>>

\* the watcher goroutine of Open: after ctx.Done() or openDone,
\* client.Close()
PumpWatcher ==
    /\ pump.watcher
    /\ pump.canceled \/ pump.pc = "returned"
    /\ pump' = [pump EXCEPT !.watcher = FALSE, !.client = "closed"]
    /\ UNCHANGED <<procVars, cfgVars, mainVars, tun, ka, dev, helper, scp, conf, sess, create>>

\* Open has brought the tunnel up and calls StartTunneling: the client is
\* open with its watcher started, the local TUN device is open
PumpInit ==
    /\ NoOpenAll
    /\ dev = InitDev
    /\ helper = InitHelper
    /\ scp = InitScp
    /\ conf = InitConf
    /\ pump = [InitPump EXCEPT !.pc = "start", !.watcher = TRUE]
    /\ sess = InitSess
    /\ create = InitCreate

\* the steps of the goroutines of Open
PumpStep ==
    \/ PumpStart
    \/ PumpWriteTUN
    \/ PumpRemoteOutEnds
    \/ PumpWriteRemote
    \/ PumpWaitReturns
    \/ PumpWatcher

\* what the peer, the network and the caller do
PumpEvent ==
    \/ PumpRemoteOut
    \/ PumpPacket
    \/ PumpSessionEnds
    \/ PumpCancel

PumpNext == PumpStep \/ PumpEvent

\* the goroutines run when they can; nothing is assumed of the packets, of
\* the remote command and of the cancellation
PumpSpec == PumpInit /\ [][PumpNext]_vars /\ WF_vars(PumpStep)

(***************************************************************************)
(* The helper path over the Open attempts of one tunnel, and the session   *)
(* set-up of StartTunneling                                                *)
(***************************************************************************)

\* bound of AttemptSpec: the number of Open calls made on the tunnel
MaxAttempts == 3

\* an upload that records a path only when none is recorded yet
RecordedOnce(s) ==
    IF s.remoteTunReadWriter = 0 THEN s.attempt ELSE s.remoteTunReadWriter

\* the path a successful upload records: filepath.Join(remoteDirectory,
\* randomFilename), the random name being made anew in every call
RecordedPath(s) == s.attempt

\* Open returns err before StartTunneling; the deferred calls of Open
SessOpenReturned(s, err) == [s EXCEPT !.pc = "idle", !.result = err]

\* StartTunneling returns ret (defer session.Close()); in Open the error is
\* returned wrapped if ctx.Err() == nil, else Open returns nil; a direct
\* caller of StartTunneling (attempt 0) has ret
SessReturned(s, ret) ==
    [s EXCEPT !.pc = IF s.attempt = 0 THEN "returned" ELSE "idle",
              !.ret = ret,
              !.session = IF @ = "open" THEN "closed" ELSE @,
              !.result = IF s.attempt = 0 THEN "none"
                         ELSE IF ret # "nil" /\ ~s.canceled
                              THEN "sshtun.StartTunneling"
                              ELSE "nil"]

\* Open is called (again): the steps up to Dial succeed or one of them
\* returns its error
SessOpen ==
    /\ sess.pc = "idle"
    /\ sess.attempt < MaxAttempts
    /\ \E ok \in BOOLEAN :
        LET s == [sess EXCEPT !.attempt = @ + 1, !.command = 0,
                              !.session = "none", !.started = FALSE,
                              !.ret = "none", !.result = "none"]
        IN  sess' = IF ok THEN [s EXCEPT !.pc = "upload"]
                    ELSE SessOpenReturned(s, "err")
    /\ UNCHANGED <<procVars, cfgVars, mainVars, tun, ka, dev, helper, scp, conf, pump, create>>

\* if err := s.UploadHelperToRemote(client, ""); err != nil { return err };
\* the upload sets s.remoteTunReadWriter as its last statement
SessUpload ==
    /\ sess.pc = "upload"
    /\ \E ok \in BOOLEAN :
        sess' = IF ok
                THEN [sess EXCEPT !.pc = "linkup",
                                  !.remoteTunReadWriter = RecordedPath(sess)]
                ELSE SessOpenReturned(sess, "upload")
    /\ UNCHANGED <<procVars, cfgVars, mainVars, tun, ka, dev, helper, scp, conf, pump, create>>

\* Become(ROOT), LinkUp, Unbecome, the keep-alive and the Unlock of Open
SessLinkUp ==
    /\ sess.pc = "linkup"
    /\ \E ok \in BOOLEAN :
        sess' = IF ok THEN [sess EXCEPT !.pc = "tunneling"]
                ELSE SessOpenReturned(sess, "unrecoverable")
    /\ UNCHANGED <<procVars, cfgVars, mainVars, tun, ka, dev, helper, scp, conf, pump, create>>

\* StartTunneling: if s.remoteTunReadWriter == "" { return ErrNoTunReadWriter };
\* remoteTunReadWriterCommand is made of s.remoteTunReadWriter
SessCommand ==
    /\ sess.pc = "tunneling"
    /\ sess' = IF sess.remoteTunReadWriter = 0
               THEN SessReturned(sess, "ErrNoTunReadWriter")
               ELSE [sess EXCEPT !.pc = "newSession",
                                 !.command = sess.remoteTunReadWriter]
    /\ UNCHANGED <<procVars, cfgVars, mainVars, tun, ka, dev, helper, scp, conf, pump, create>>

\* session, err := client.NewSession(); if err != nil { return err }
SessNewSession ==
    /\ sess.pc = "newSession"
    /\ \E ok \in BOOLEAN :
        sess' = IF ok THEN [sess EXCEPT !.pc = "stdinPipe", !.session = "open"]
                ELSE SessReturned(sess, "err")
    /\ UNCHANGED <<procVars, cfgVars, mainVars, tun, ka, dev, helper, scp, conf, pump, create>>

\* remoteIN, err := session.StdinPipe(); if err != nil { return nil }
SessStdinPipe ==
    /\ sess.pc = "stdinPipe"
    /\ \E ok \in BOOLEAN :
        sess' = IF ok THEN [sess EXCEPT !.pc = "stdoutPipe"]
                ELSE SessReturned(sess, "nil")
    /\ UNCHANGED <<procVars, cfgVars, mainVars, tun, ka, dev, helper, scp, conf, pump, create>>

\* remoteOUT, err := session.StdoutPipe(); if err != nil { return err }
SessStdoutPipe ==
    /\ sess.pc = "stdoutPipe"
    /\ \E ok \in BOOLEAN :
        sess' = IF ok THEN [sess EXCEPT !.pc = "stderrPipe"]
                ELSE SessReturned(sess, "err")
    /\ UNCHANGED <<procVars, cfgVars, mainVars, tun, ka, dev, helper, scp, conf, pump, create>>

\* remoteERR, err := session.StderrPipe(); if err != nil { return err }
SessStderrPipe ==
    /\ sess.pc = "stderrPipe"
    /\ \E ok \in BOOLEAN :
        sess' = IF ok THEN [sess EXCEPT !.pc = "start"]
                ELSE SessReturned(sess, "err")
    /\ UNCHANGED <<procVars, cfgVars, mainVars, tun, ka, dev, helper, scp, conf, pump, create>>

\* if err := session.Start(remoteTunReadWriterCommand); err != nil
\* { return err }; the two copy goroutines are started
SessStart ==
    /\ sess.pc = "start"
    /\ \E ok \in BOOLEAN :
        sess' = IF ok THEN [sess EXCEPT !.pc = "wait", !.started = TRUE]
                ELSE SessReturned(sess, "err")
    /\ UNCHANGED <<procVars, cfgVars, mainVars, tun, ka, dev, helper, scp, conf, pump, create>>

\* if err := session.Wait(); err != nil { return fmt.Errorf(...) }; return nil
SessWait ==
    /\ sess.pc = "wait"
    /\ \E ret \in {"nil", "err"} : sess' = SessReturned(sess, ret)
    /\ UNCHANGED <<procVars, cfgVars, mainVars, tun, ka, dev, helper, scp, conf, pump, create>>

\* the context of the Open call is canceled
SessCancel ==
    /\ sess.pc # "none"
    /\ ~sess.canceled
    /\ sess' = [sess EXCEPT !.canceled = TRUE]
    /\ UNCHANGED <<procVars, cfgVars, mainVars, tun, ka, dev, helper, scp, conf, pump, create>>

\* a tunnel before its first Open call, or a fresh SSHTUN on which
\* StartTunneling is called without an upload
AttemptInit ==
    /\ NoOpenAll
    /\ dev = InitDev
    /\ helper = InitHelper
    /\ scp = InitScp
    /\ conf = InitConf
    /\ pump = InitPump
    /\ create = InitCreate
    /\ \E pc \in {"idle", "tunneling"} : sess = [InitSess EXCEPT !.pc = pc]

AttemptNext ==
    \/ SessOpen
    \/ SessUpload
    \/ SessLinkUp
    \/ SessCommand
    \/ SessNewSession
    \/ SessStdinPipe
    \/ SessStdoutPipe
    \/ SessStderrPipe
    \/ SessStart
    \/ SessWait
    \/ SessCancel

AttemptSpec == AttemptInit /\ [][AttemptNext]_vars

(***************************************************************************)
(* tun.CreateTUN and the descriptor of /dev/net/tun                        *)
(***************************************************************************)

\* syscall.IFNAMSIZ
IFNAMSIZ == 16

\* the lengths of the interface names tried
NameLengths == {IFNAMSIZ - 1, IFNAMSIZ}

\* the values tried for mtu, uid and gid
CreateArgs == {0, 1000}

\* syscall.Close(fd) on the number of the descriptor: it closes the
\* descriptor, or what another goroutine has opened under the number since
\* it was closed, or fails with EBADF
SysClose(c) ==
    [c EXCEPT !.closes = @ + 1,
              !.fd = IF @ = "open" THEN "closed" ELSE @,
              !.other = IF c.fd # "open" /\ @ = "open" THEN "closed" ELSE @]

\* a return statement of CreateTUN after the defer statement was reached
CreateFails(c) == [c EXCEPT !.pc = "defer", !.err = TRUE]

\* fd, err := syscall.Open(DEV_NET_TUN, ...); closeFD := true; defer ...
CreateOpenDev ==
    /\ create.pc = "open"
    /\ \E ok \in BOOLEAN :
        create' = IF ok
                  THEN [create EXCEPT !.pc = "ifreq", !.fd = "open",
                                      !.closeFD = TRUE]
                  ELSE [create EXCEPT !.pc = "returned", !.err = TRUE]
    /\ UNCHANGED <<procVars, cfgVars, mainVars, tun, ka, dev, helper, scp, conf, pump, sess>>

\* ifr, err := NewIfreq(name); if err != nil { syscall.Close(fd); return nil, err }
\* NewIfreq fails with EINVAL if len(name) >= syscall.IFNAMSIZ
CreateNewIfreq ==
    /\ create.pc = "ifreq"
    /\ create' = IF create.name >= IFNAMSIZ
                 THEN CreateFails(SysClose(create))
                 ELSE [create EXCEPT !.pc = "setiff"]
    /\ UNCHANGED <<procVars, cfgVars, mainVars, tun, ka, dev, helper, scp, conf, pump, sess>>

\* err = IoctlIfreq(fd, syscall.TUNSETIFF, ifr); t := &TUN{...}
CreateSetIff ==
    /\ create.pc = "setiff"
    /\ \E ok \in BOOLEAN :
        create' = IF ok THEN [create EXCEPT !.pc = "mtu"]
                  ELSE CreateFails(create)
    /\ UNCHANGED <<procVars, cfgVars, mainVars, tun, ka, dev, helper, scp, conf, pump, sess>>

\* if mtu > 0 { if err := t.SetMTU(mtu); err != nil { return nil, err } }
CreateSetMTU ==
    /\ create.pc = "mtu"
    /\ \E ok \in BOOLEAN :
        create' = IF create.mtu > 0 /\ ~ok THEN CreateFails(create)
                  ELSE [create EXCEPT !.pc = "owner"]
    /\ UNCHANGED <<procVars, cfgVars, mainVars, tun, ka, dev, helper, scp, conf, pump, sess>>

\* if uid > 0 { ioctl TUNSETOWNER }
CreateSetOwner ==
    /\ create.pc = "owner"
    /\ \E ok \in BOOLEAN :
        create' = IF create.uid > 0 /\ ~ok THEN CreateFails(create)
                  ELSE [create EXCEPT !.pc = "group"]
    /\ UNCHANGED <<procVars, cfgVars, mainVars, tun, ka, dev, helper, scp, conf, pump, sess>>

\* if gid > 0 { ioctl TUNSETGROUP }
CreateSetGroup ==
    /\ create.pc = "group"
    /\ \E ok \in BOOLEAN :
        create' = IF create.gid > 0 /\ ~ok THEN CreateFails(create)
                  ELSE [create EXCEPT !.pc = "file"]
    /\ UNCHANGED <<procVars, cfgVars, mainVars, tun, ka, dev, helper, scp, conf, pump, sess>>

\* closeFD = false; t.File = os.NewFile(uintptr(fd), DEV_NET_TUN); return t, nil
CreateNewFile ==
    /\ create.pc = "file"
    /\ create' = [create EXCEPT !.pc = "defer", !.closeFD = FALSE,
                                !.file = TRUE, !.t = TRUE]
    /\ UNCHANGED <<procVars, cfgVars, mainVars, tun, ka, dev, helper, scp, conf, pump, sess>>

\* the deferred function runs at the return: if closeFD { syscall.Close(fd) }
CreateDeferred ==
    /\ create.pc = "defer"
    /\ create' = [(IF create.closeFD THEN SysClose(create) ELSE create)
                    EXCEPT !.pc = "returned"]
    /\ UNCHANGED <<procVars, cfgVars, mainVars, tun, ka, dev, helper, scp, conf, pump, sess>>

\* another goroutine of the process opens a descriptor (a socket, the TUN
\* device of another tunnel): the kernel gives the lowest free number
CreateOtherOpens ==
    /\ create.pc \in {"defer", "returned"}
    /\ create.fd = "closed"
    /\ create.other = "none"
    /\ create' = [create EXCEPT !.other = "open"]
    /\ UNCHANGED <<procVars, cfgVars, mainVars, tun, ka, dev, helper, scp, conf, pump, sess>>

\* CreateTUN(name, mtu, uid, gid) is called
CreateInit ==
    /\ NoOpenAll
    /\ dev = InitDev
    /\ helper = InitHelper
    /\ scp = InitScp
    /\ conf = InitConf
    /\ pump = InitPump
    /\ sess = InitSess
    /\ \E n \in NameLengths, m \in CreateArgs, u \in CreateArgs, g \in CreateArgs :
        create = [InitCreate EXCEPT !.pc = "open", !.name = n, !.mtu = m,
                                    !.uid = u, !.gid = g]

CreateNext ==
    \/ CreateOpenDev
    \/ CreateNewIfreq
    \/ CreateSetIff
    \/ CreateSetMTU
    \/ CreateSetOwner
    \/ CreateSetGroup
    \/ CreateNewFile
    \/ CreateDeferred
    \/ CreateOtherOpens

CreateSpec == CreateInit /\ [][CreateNext]_vars

(***************************************************************************)
(* Properties                                                              *)
(***************************************************************************)

\* the positions of Open between v.mutex.Lock() and v.mutex.Unlock()
BringUp ==
    {"become", "createTUN", "configure", "unbecome", "dial", "handshake",
     "upload", "become2", "linkup", "unbecome2", "keepalive", "unlock"}

\* the positions of Open between a Become(ROOT) and the Unbecome after it
RootSection == {"createTUN", "configure", "unbecome", "linkup", "unbecome2"}

\* tunnel t is doing work of its own: a bring-up step, the byte pump, a
\* keepalive task, or the restart loop after an Open
Working(t) ==
    \/ tun[t].pc \in BringUp \cup {"tunneling", "pump", "returned", "timer"}
    \/ tun[t].keepalive

\* C1: at most one tunnel is between acquiring the mutex and releasing it:
\* the bring-up steps of two tunnels are never interleaved
C1_BringUpExclusive ==
    \A a, b \in TunnelIds :
        a # b => ~(tun[a].pc \in BringUp /\ tun[b].pc \in BringUp)

\* C1 witness: one tunnel is uploading its helper while the other waits in
\* v.mutex.Lock()
C1_Witness ==
    \E a, b \in TunnelIds :
        a # b /\ tun[a].pc = "upload" /\ tun[b].pc = "lock"

\* C2 (as claimed): when Open returns while it holds the mutex, after its
\* Become (the returns out of a privileged section among them), the euid
\* at the return and at the deferred Unlock is the pre-escalation value
\* recorded by Become
C2_EuidRestoredOnExit ==
    [][\A t \in TunnelIds :
        (/\ tun[t].pc \in BringUp
         /\ tun[t].originalUID # NoUID
         /\ tun'[t].pc = "returned")
            => /\ euid' = tun[t].originalUID
               /\ tun'[t].exitUid = tun[t].originalUID
               /\ tun'[t].unlockUid = tun[t].originalUID]_vars

C4_EuidUnderToken ==
    /\ [](\A a, b \in TunnelIds :
            a # b => ~(tun[a].pc \in RootSection /\ tun[b].pc \in RootSection))
    /\ [][euid' # euid =>
            \E t \in TunnelIds :
                /\ mutex = t
                /\ tun'[t].pc # tun[t].pc
                /\ \A u \in TunnelIds \ {t} : tun'[u] = tun[u]]_vars

\* C4 witness: one tunnel is root for its link-up while the other waits in
\* v.mutex.Lock()
C4_Witness ==
    \E a, b \in TunnelIds :
        /\ a # b
        /\ tun[a].pc = "linkup"
        /\ euid = ROOT
        /\ rootBy = a
        /\ tun[b].pc = "lock"

\* C5 (as claimed): while euid is 0 because tunnel a escalated, no other
\* tunnel is doing any work of its own
C5_NoTunnelSeesRoot ==
    \A a, b \in TunnelIds :
        (a # b /\ euid = ROOT /\ rootBy = a) => ~Working(b)

\* C6: after Open returned an unrecoverable error the worker stops, a
\* stopped worker never calls Open again, and the step that stops it leaves
\* the other tunnels and the mutex to them
C6_UnrecoverableStops ==
    [][\A t \in TunnelIds :
        /\ (tun[t].pc = "returned" /\ tun[t].lastErr = "unrecoverable")
              => tun'[t].pc \in {"returned", "stopped"}
        /\ tun[t].pc = "stopped" => tun'[t].pc = "stopped"
        /\ (tun[t].pc # "stopped" /\ tun'[t].pc = "stopped")
              => /\ mutex' # t
                 /\ \A u \in TunnelIds \ {t} : tun'[u] = tun[u]]_vars

\* C6 witness: one worker has stopped on an unrecoverable error while the
\* other tunnel is up and pumping
C6_Witness ==
    \E a, b \in TunnelIds :
        /\ a # b
        /\ tun[a].pc = "stopped"
        /\ tun[a].lastErr = "unrecoverable"
        /\ tun[b].pc = "pump"

\* C7: after Open returned an error that is not unrecoverable the worker
\* starts a new timer; it leaves the timer for another Open only when the
\* timer has fired and otherwise only by stopping on cancellation; and
\* unless the context is canceled it does call Open again
C7_RetryAfterTimer ==
    /\ [][\A t \in TunnelIds :
            /\ (tun[t].pc = "returned" /\ tun[t].lastErr = "err")
                  => \/ tun'[t].pc = "returned"
                     \/ tun'[t].pc = "timer" /\ ~tun'[t].tmr
            /\ (tun[t].pc = "timer" /\ tun'[t].pc # "timer")
                  => \/ tun'[t].pc = "open" /\ tun[t].tmr
                     \/ tun'[t].pc = "stopped" /\ canceled
            /\ (tun[t].pc = "open" /\ tun'[t].pc # "open")
                  => tun'[t].pc = "lock"]_vars
    /\ \A t \in TunnelIds :
            (tun[t].pc = "returned" /\ tun[t].lastErr = "err" /\ ~canceled)
                ~> (tun[t].pc = "lock" \/ canceled)

\* C7 witness: after a failed Open the timer has fired, the context is not
\* canceled, and the worker is about to call Open again
C7_Witness ==
    \E t \in TunnelIds :
        /\ tun[t].pc = "timer"
        /\ tun[t].lastErr = "err"
        /\ tun[t].tmr
        /\ ~canceled

AllWorkersDone == \A t \in TunnelIds : tun[t].pc \in {"idle", "stopped"}
OpenAllReturned == mainPc \in {"returned", "error"}

\* C8 (as claimed): after the context is canceled every Open returns, every
\* worker terminates and OpenAll returns
C8_CancelTerminates == canceled ~> (AllWorkersDone /\ OpenAllReturned)

\* the ticks so far all failed
AllFailed(h) == \A i \in 1..Len(h) : ~h[i]

\* the number of failures at the end of h since the last success
RECURSIVE TrailingFails(_)
TrailingFails(h) ==
    IF h = <<>> \/ h[Len(h)] THEN 0
    ELSE 1 + TrailingFails(SubSeq(h, 1, Len(h) - 1))

\* the length of the longest run of consecutive failures in h
RECURSIVE LongestFailRun(_)
LongestFailRun(h) ==
    IF h = <<>> THEN 0
    ELSE LET rest == LongestFailRun(SubSeq(h, 1, Len(h) - 1))
         IN IF TrailingFails(h) > rest THEN TrailingFails(h) ELSE rest

\* C9: when every request fails, the client is closed exactly from the
\* countMax-th tick on (the first tick when countMax = 0), and no tick
\* follows the one that closed it
C9_ClosesAtCountMax ==
    LET k == IF ka.countMax = 0 THEN 1 ELSE ka.countMax
    IN AllFailed(ka.hist) =>
        /\ Len(ka.hist) <= k
        /\ (ka.client = "closed") = (Len(ka.hist) = k)
        /\ ka.client = "closed" => ka.pc = "exit"

\* C9 witness: with countMax = 3 and nothing but failures the client is
\* closed
C9_Witness ==
    /\ ka.countMax = 3
    /\ ka.client = "closed"
    /\ AllFailed(ka.hist)

\* C10: for countMax >= 1 the client is closed only when the last countMax
\* ticks all failed, and never while every run of failures is shorter than
\* countMax; a success leaves the counter at zero
C10_SuccessResets ==
    /\ (ka.hist # <<>> /\ ka.hist[Len(ka.hist)]) => ka.n = 0
    /\ ka.countMax >= 1 =>
        /\ ka.client = "closed" => TrailingFails(ka.hist) >= ka.countMax
        /\ LongestFailRun(ka.hist) < ka.countMax => ka.client = "open"

\* C10 witness: the client was closed after a success had reset the counter
\* in the middle of failures
C10_Witness ==
    /\ ka.countMax = 2
    /\ ka.client = "closed"
    /\ \E i \in 2..Len(ka.hist) : ka.hist[i] /\ ~ka.hist[i - 1]

\* the keepalive task of tunnel t closed the client of the running Open:
\* the client is closed while the watcher, the only other closer, has not
\* run
KeepaliveClosed(t) ==
    /\ tun[t].pc \in {"unlock", "tunneling", "pump"}
    /\ tun[t].client = "closed"
    /\ tun[t].watcher

\* C11: after the keepalive task closed the client, Open returns an error
\* that is not unrecoverable (nil only when the context is canceled), and
\* unless the context is canceled the worker calls Open again
C11_KeepaliveDeathReopens ==
    /\ [][\A t \in TunnelIds :
            (KeepaliveClosed(t) /\ tun'[t].pc = "returned")
                => /\ tun'[t].lastErr \in {"err", "nil"}
                   /\ tun'[t].lastErr = "nil" => canceled]_vars
    /\ \A t \in TunnelIds :
            (KeepaliveClosed(t) /\ ~canceled)
                ~> (tun[t].pc = "lock" \/ canceled)

\* C11 witness: Open has returned an error after the keepalive task closed
\* its client (the watcher has not run yet), and the context is not canceled
C11_Witness ==
    \E t \in TunnelIds :
        /\ tun[t].pc = "returned"
        /\ tun[t].lastErr = "err"
        /\ tun[t].client = "closed"
        /\ tun[t].watcher
        /\ ~canceled

\* the positions of Open that change the effective uid or work on the local
\* TUN device
LocalSteps ==
    {"become", "createTUN", "configure", "unbecome", "become2", "linkup",
     "unbecome2"}

\* C12: an error returned by Open chains to ErrUnrecoverable exactly when
\* Open returned from a step that changes the effective uid, creates or
\* configures the TUN device or brings the link up; every return from these
\* steps is such an error, and the errors of dialing, of the helper upload
\* and of the byte pump never are
C12_UnrecoverableIffLocal ==
    [][\A t \in TunnelIds :
        (/\ tun[t].pc \in BringUp \cup {"tunneling", "pump"}
         /\ tun'[t].pc = "returned")
            => /\ tun[t].pc \in LocalSteps
                    => tun'[t].lastErr = "unrecoverable"
               /\ tun[t].pc \notin LocalSteps
                    => tun'[t].lastErr \in {"err", "nil"}]_vars

\* C12 witness: one Open has returned an unrecoverable error and stopped
\* its worker, the Open of the other tunnel has returned an error that is
\* not unrecoverable
C12_Witness ==
    \E a, b \in TunnelIds :
        /\ a # b
        /\ tun[a].pc = "stopped"
        /\ tun[a].lastErr = "unrecoverable"
        /\ tun[b].pc = "returned"
        /\ tun[b].lastErr = "err"

\* C13: when StartTunneling ends with an error Open returns nil if the
\* context is canceled at that moment and the error if it is not; an error
\* of the dial, the handshake or the upload is returned whether the context
\* is canceled or not
C13_PumpErrorSwallowedOnCancel ==
    [][\A t \in TunnelIds :
        tun'[t].pc = "returned" =>
            /\ tun[t].pc \in {"dial", "handshake", "upload"}
                    => tun'[t].lastErr = "err"
            /\ tun[t].pc \in {"tunneling", "pump"}
                    => /\ tun'[t].lastErr \in {"err", "nil"}
                       /\ canceled => tun'[t].lastErr = "nil"
                       /\ (~canceled /\ tun[t].client = "closed")
                                => tun'[t].lastErr = "err"]_vars

\* C13 witness: one Open has returned nil from a byte pump that failed
\* (its keepalive task had closed the client, the watcher has not run) while
\* the context was canceled, and the other Open, which never got its helper
\* uploaded, has returned the error of the upload cut off by the
\* cancellation
C13_Witness ==
    \E a, b \in TunnelIds :
        /\ a # b
        /\ canceled
        /\ tun[a].pc = "returned"
        /\ tun[a].lastErr = "nil"
        /\ tun[a].client = "closed"
        /\ tun[a].watcher
        /\ tun[b].pc = "returned"
        /\ tun[b].lastErr = "err"
        /\ tun[b].client = "closed"
        /\ tun[b].remoteTunReadWriter = <<>>

\* C14: with no tunnel enabled OpenAll starts no worker, calls no Open, does
\* not wait, and returns the error whose message names the total number of
\* tunnels; it returns that error in no other case
C14_NoneEnabledError ==
    /\ (\A t \in TunnelIds : ~Enable[t]) =>
            /\ \A t \in TunnelIds : tun[t].pc = "idle"
            /\ wg = 0
            /\ mainPc \in {"loop", "error"}
            /\ mainPc = "error" =>
                    openAllErr = <<"0 out of ", Len(TunnelNames),
                                   " tunnel(s) marked enabled in configuration">>
    /\ mainPc = "error" => \A t \in TunnelIds : ~Enable[t]
    /\ mainPc # "error" => openAllErr = <<>>

\* C14 witness: OpenAll has returned the error on a configuration of two
\* tunnels, none enabled
C14_Witness ==
    /\ mainPc = "error"
    /\ openAllErr # <<>>
    /\ \A t \in TunnelIds : ~Enable[t] /\ tun[t].pc = "idle"

\* C15: when the context does not carry the sshtun value, Open returns
\* ErrMissingContext and nothing else happens: the mutex is not locked, the
\* euid is not changed, no TUN device is made and nothing is dialed
C15_MissingContextNoEffect ==
    ~ctxToken =>
        /\ mutex = NoHolder
        /\ euid = UserUID
        /\ \A t \in TunnelIds :
            /\ tun[t].pc \in {"idle", "open", "returned"}
            /\ tun[t].pc = "returned" =>
                    /\ tun[t].lastErr = "missingContext"
                    /\ tun[t].exitUid = tun[t].entryUid
            /\ ~tun[t].localTUN
            /\ tun[t].client = "nil"
            /\ ~tun[t].watcher
            /\ tun[t].lockUid = NoUID
            /\ tun[t].originalUID = NoUID

\* C15 witness: Open has returned ErrMissingContext
C15_Witness ==
    /\ ~ctxToken
    /\ \E t \in TunnelIds :
        tun[t].pc = "returned" /\ tun[t].lastErr = "missingContext"

\* C16 (as claimed): the recorded helper path is the configured
\* remote_upload_directory, /tmp when that is empty, joined with the name
C16_UploadsToConfiguredDirectory ==
    \A t \in TunnelIds :
        tun[t].remoteTunReadWriter # <<>> =>
            tun[t].remoteTunReadWriter =
                <<IF RemoteUploadDirectory[t] = ""
                  THEN "/tmp" ELSE RemoteUploadDirectory[t],
                  randomFilename>>

\* C17 (as claimed): of the Close calls on a handle the first returns nil
\* and every later one an error, and once Close was called the file is
\* closed and the descriptor no longer refers to the TUN device
C17_CloseOnce ==
    dev.closes # <<>> =>
        /\ dev.closes[1] = "nil"
        /\ \A i \in 2..Len(dev.closes) : dev.closes[i] # "nil"
        /\ dev.file = "closed"
        /\ dev.fd # "tun"

\* the string is a valid IPv4 CIDR
ValidIPv4CIDR(c) == c.form = "v4" /\ ParseCIDROK(c)

\* the step is a ConfigureInterface call
ConfigureCalled ==
    /\ dev'.calls = dev.calls + 1
    /\ dev'.lastOp = "configure"

\* the step left the interface as it was and sent the kernel no request
InterfaceUntouched ==
    /\ dev'.requests = dev.requests
    /\ dev'.addr = dev.addr
    /\ dev'.mask = dev.mask

\* C18 (as claimed): ConfigureInterface on a string that is not a valid IPv4
\* CIDR fails with ErrInvalidAddress and issues no device-control request
C18_InvalidIsInvalidAddress ==
    [][(ConfigureCalled /\ ~ValidIPv4CIDR(CIDRInputs[dev'.lastIn]))
            => /\ dev'.lastErr = "ErrInvalidAddress"
               /\ InterfaceUntouched]_vars

\* C19: when tunreadwriter has returned, its executable is removed exactly
\* when -delete was given, whatever the path of the return; before the
\* return, and without -delete, the executable is there
C19_DeletesOnEveryReturn ==
    /\ helper.exit \in {"0", "1"} => (helper.exe = ~helper.deleteMyself)
    /\ helper.pc \notin {"idle", "exited"} => helper.exe
    /\ (helper.pc = "exited" /\ ~helper.deleteMyself) => helper.exe

\* C19 witness: started with -delete and an empty device name, the helper
\* has returned an error before it made a TUN device and its executable is
\* gone
C19_Witness ==
    /\ helper.deleteMyself
    /\ helper.device = ""
    /\ helper.exit = "1"
    /\ ~helper.exe

\* C20: once the TUN device is up, a signal that was caught, the end of the
\* copy from stdin or the end of the copy from the TUN each lead to the
\* helper's exit, whether the other copy ended or not; at the exit the TUN
\* device is closed
C20_AnyEventEndsHelper ==
    /\ [](helper.pc = "exited" => ~helper.tunOpen)
    /\ (helper.pc = "run" /\ helper.sig) ~> (helper.pc = "exited")
    /\ (helper.pc = "run" /\ helper.fromSTDINdone) ~> (helper.pc = "exited")
    /\ (helper.pc = "run" /\ helper.fromTUNdone) ~> (helper.pc = "exited")

\* C20 witness: the helper has returned after the copy from stdin ended,
\* with no signal and the copy from the TUN still running
C20_Witness ==
    /\ helper.exit = "0"
    /\ helper.fromSTDINdone
    /\ ~helper.fromTUNdone
    /\ ~helper.sig

\* C21 (as claimed): the TUN device the helper made has the uid of the
\* -user account as its owner and the gid of the -group group as its group;
\* without both flags it has neither an owner nor a group set
C21_OwnerFromFlags ==
    helper.tunOpen =>
        /\ helper.user # "none" => helper.owner = LookupUser(helper.user).Uid
        /\ helper.group # "none" =>
               helper.ownerGroup = LookupGroup(helper.group).Gid
        /\ (helper.user = "none" /\ helper.group = "none") =>
               (helper.owner = NoUID /\ helper.ownerGroup = NoUID)

\* a is an initial part of b
IsPrefix(a, b) == Len(a) <= Len(b) /\ SubSeq(b, 1, Len(a)) = a

\* the header for the length of the embedded helper and the name, the
\* helper's bytes, one zero byte
ExpectedStream ==
    <<"C0755 ", Itoa(Len(scp.tunreadwriter)), " ", scp.randomFilename, "\n">>
        \o scp.tunreadwriter \o <<"00">>

\* C22: what was written to the stdin of the copy session is at every moment
\* an initial part of: the header line "C0755 <size> <name>\n", the <size>
\* bytes of the embedded helper, one zero byte; it is all of that when the
\* writing goroutine has ended with no Write refused by a closed channel;
\* stdin is closed then and nothing is written after the close; the name in
\* the header is the name of the recorded helper path, which is recorded
\* only after stdin was closed
C22_UploadStream ==
    /\ [](IsPrefix(scp.stdin, ExpectedStream))
    /\ []((scp.gpc = "done" /\ scp.errCh = "closed" /\ scp.stdinClosed
              /\ ~scp.broken)
            => scp.stdin = ExpectedStream)
    /\ []((scp.gpc = "done" /\ scp.stdin # <<>>) => scp.stdinClosed)
    /\ [](scp.remoteTunReadWriter # <<>> =>
            /\ scp.stdinClosed
            /\ scp.remoteTunReadWriter[1] = RemoteDirectory(scp.remoteDirectory)
            /\ scp.stdin # <<>> => scp.stdin[4] = scp.remoteTunReadWriter[2])
    /\ [][scp.stdinClosed => scp'.stdin = scp.stdin]_vars

\* C22 witness: an upload has returned nil after the whole stream of a
\* helper that has a zero byte of its own was written
C22_Witness ==
    /\ scp.result = "nil"
    /\ scp.tunreadwriter = <<"00", "7f">>
    /\ scp.stdin = ExpectedStream
    /\ scp.stdinClosed
    /\ scp.remoteTunReadWriter = <<"/tmp", scp.randomFilename>>

\* the fields the round trip is claimed for
ClaimedFields ==
    {"Name", "Comment", "Protocol", "LocalNetwork", "RemoteNetwork",
     "LocalTunDevice", "RemoteTunDevice", "LocalMTU", "RemoteMTU", "RemoteUser",
     "UseSSHAgent", "Enable", "KeepaliveInterval", "KeepaliveMaxErrorCount"}

\* C23 (as claimed): the tunnel set loaded back has as many tunnels, in the
\* same order, and each claimed field of each tunnel is the original's
C23_RoundTrip ==
    conf.pc = "loaded" =>
        /\ Len(conf.loaded) = Len(conf.T)
        /\ \A i \in DOMAIN conf.T : \A k \in ClaimedFields :
              conf.loaded[i][k] = conf.T[i][k]

\* C23 (amended): the tunnel set loaded back has as many tunnels, in the
\* same order; each claimed field that is a number, a flag or a duration is
\* the original's, and each claimed field that is a string is the original
\* with every byte that is not valid UTF-8 replaced by U+FFFD, so the
\* original itself when it is valid UTF-8
C23_RoundTripValidUTF8 ==
    conf.pc = "loaded" =>
        /\ Len(conf.loaded) = Len(conf.T)
        /\ \A i \in DOMAIN conf.T : \A k \in ClaimedFields :
              /\ k \notin StringFields => conf.loaded[i][k] = conf.T[i][k]
              /\ k \in StringFields =>
                    /\ conf.loaded[i][k] = CoerceUTF8(conf.T[i][k])
                    /\ (\A n \in DOMAIN conf.T[i][k] : conf.T[i][k][n] # "\\xff")
                          => conf.loaded[i][k] = conf.T[i][k]

\* C23 witness: a set of two different tunnels, the second with a comment,
\* flags set and the first with a keepalive interval of 1m30s, was saved and
\* loaded back equal
C23_Witness ==
    /\ conf.pc = "loaded"
    /\ Len(conf.T) = 2
    /\ conf.T[1].KeepaliveInterval = 90000
    /\ conf.T[2].Comment = <<"second">>
    /\ conf.T[2].Enable
    /\ conf.loaded = conf.T

\* the positions of an Open call that has acquired the mutex and has not
\* returned
AfterLock ==
    {"become", "createTUN", "configure", "unbecome", "dial", "handshake",
     "upload", "become2", "linkup", "unbecome2", "keepalive", "unlock",
     "tunneling", "pump"}

\* C24: an Open call that acquired the mutex releases it exactly once before
\* it returns.  The call holds the mutex exactly while its unlockOnExit is
\* set; whenever the mutex stops being held by a tunnel it is that tunnel's
\* own step that frees it and the step clears unlockOnExit, so that no later
\* release follows; a step that returns from Open after the lock either
\* frees the mutex the call still holds (the deferred func) or finds it
\* released by the call's explicit Unlock; once Open has returned the tunnel
\* does not hold the mutex
C24_TokenReleasedOnce ==
    /\ [](\A t \in TunnelIds :
            /\ tun[t].unlockOnExit <=> mutex = t
            /\ mutex = t => tun[t].pc \in AfterLock
            /\ tun[t].pc \in {"tunneling", "pump"} => ~tun[t].unlockOnExit)
    /\ [][\A t \in TunnelIds :
            /\ (mutex = t /\ mutex' # t) =>
                  /\ mutex' = NoHolder
                  /\ tun[t].unlockOnExit /\ ~tun'[t].unlockOnExit
                  /\ tun'[t].pc \in {"returned", "tunneling"}
                  /\ \A u \in TunnelIds \ {t} : tun'[u] = tun[u]
            /\ (tun[t].pc \in AfterLock /\ tun'[t].pc = "returned") =>
                  /\ mutex' # t
                  /\ (tun[t].pc \in {"tunneling", "pump"}) <=> (mutex # t)
          ]_vars

\* C24 witness: one tunnel's Open has returned an unrecoverable error from
\* the bring-up, where the deferred func released the mutex, the other's
\* has returned nil from the byte pump, before which it released the mutex
\* explicitly; the mutex is free
C24_Witness ==
    /\ tun[1].pc = "returned" /\ tun[1].lastErr = "unrecoverable"
    /\ tun[2].pc = "returned" /\ tun[2].lastErr = "nil"
    /\ mutex = NoHolder

\* the byte-pump phase of Open: StartTunneling was called and has not
\* returned
Pumping(t) == tun[t].pc \in {"tunneling", "pump"}

\* C25: a tunnel in its byte-pump phase does not hold the mutex, and a
\* tunnel that waits for the mutex while every other tunnel is in its
\* byte-pump phase can acquire it
C25_PumpHoldsNoToken ==
    \A t \in TunnelIds :
        /\ Pumping(t) => (mutex # t /\ ~tun[t].unlockOnExit)
        /\ (tun[t].pc = "lock" /\ \A u \in TunnelIds \ {t} : Pumping(u))
              => ENABLED Lock(t)

\* C25 witness: the first tunnel is up and pumping while the second has
\* acquired the mutex after it, has completed its bring-up under it and is
\* about to release it
C25_Witness ==
    /\ tun[1].pc = "pump"
    /\ tun[1].client = "open"
    /\ tun[2].pc = "unlock"
    /\ mutex = 2

\* C26: a client exists only with its watcher started; when Open returns
\* after the dial succeeded, openDone is closed, whatever the return; a
\* client that is open when the context is canceled or when its Open call
\* has returned is eventually closed, and is closed for good
C26_ClientClosedAfterOpen ==
    \A t \in TunnelIds :
        /\ [](tun[t].client = "open" => tun[t].watcher)
        /\ []((tun[t].pc = "returned" /\ tun[t].client # "nil")
                => tun[t].openDone)
        /\ (tun[t].client = "open" /\ (canceled \/ tun[t].pc = "returned"))
              ~> [](tun[t].client = "closed")

\* C26 witness: Open has returned an unrecoverable error of the second
\* escalation or of the link-up, with no cancellation and before a keepalive
\* task existed, and the watcher has closed the client
C26_Witness ==
    /\ tun[1].pc = "returned"
    /\ tun[1].lastErr = "unrecoverable"
    /\ tun[1].client = "closed"
    /\ ~tun[1].watcher
    /\ ~canceled

\* the positions of Open after the lock, in the order of the code
OpenOrder ==
    <<"lock", "become", "createTUN", "configure", "unbecome", "dial",
      "handshake", "upload", "become2", "linkup", "unbecome2", "keepalive",
      "unlock", "tunneling", "pump">>

\* C27: within an Open call each position after the lock is entered only
\* from the position before it, so only when the step before it succeeded.
\* While Open dials, the local TUN device exists, and the euid is the one
\* recorded at the escalation, restored by Unbecome; while it uploads, the
\* dial has given a client; while it escalates again and links up, the
\* helper path is recorded; when the remote command is started, the guard
\* has restored the recorded euid and the mutex is released
C27_StepOrder ==
    /\ [][\A t \in TunnelIds :
            (tun'[t].pc # tun[t].pc /\ tun'[t].pc # "lock"
                /\ \E i \in DOMAIN OpenOrder : OpenOrder[i] = tun'[t].pc)
              => \E i \in 1..(Len(OpenOrder) - 1) :
                    OpenOrder[i] = tun[t].pc /\ OpenOrder[i + 1] = tun'[t].pc
          ]_vars
    /\ [](\A t \in TunnelIds :
            /\ tun[t].pc \in {"dial", "handshake"} =>
                  /\ tun[t].localTUN
                  /\ tun[t].becameUID = tun[t].originalUID
                  /\ euid = tun[t].originalUID
                  /\ tun[t].client = "nil"
            /\ tun[t].pc = "upload" => (tun[t].localTUN /\ tun[t].client # "nil")
            /\ tun[t].pc \in {"become2", "linkup"} =>
                  tun[t].remoteTunReadWriter # <<>>
            /\ tun[t].pc = "linkup" => (euid = ROOT /\ mutex = t)
            /\ tun[t].pc \in {"tunneling", "pump"} =>
                  /\ tun[t].becameUID = tun[t].originalUID
                  /\ tun[t].unlockUid = tun[t].originalUID
                  /\ mutex # t
                  /\ tun[t].remoteTunReadWriter # <<>>)

\* C27 witness: the second tunnel has gone through all the steps and runs
\* its remote command, with its client open, its local TUN device and its
\* helper path, after a bring-up that escalated from the user's uid
C27_Witness ==
    /\ tun[2].pc = "pump"
    /\ tun[2].client = "open"
    /\ tun[2].localTUN
    /\ tun[2].remoteTunReadWriter # <<>>
    /\ tun[2].originalUID = UserUID
    /\ mutex = NoHolder

\* C28 (as claimed): a tunnel that has a keepalive task has released the
\* mutex, and has a keepalive interval greater than 0
C28_KeepaliveAfterUnlock ==
    \A t \in TunnelIds :
        tun[t].keepalive => (mutex # t /\ KeepaliveInterval[t] > 0)

\* C28 (amended): the keepalive task of a tunnel is started only when the
\* keepalive interval is greater than 0, by the step of Open that follows
\* the second Unbecome and precedes the Unlock: the tunnel holds the mutex
\* when the task is started and still holds it after the step; the task
\* exists only from there to the return of Open
C28_KeepaliveBeforeUnlock ==
    /\ [][\A t \in TunnelIds :
            (~tun[t].keepalive /\ tun'[t].keepalive) =>
                /\ KeepaliveInterval[t] > 0
                /\ tun[t].pc = "keepalive" /\ tun'[t].pc = "unlock"
                /\ mutex = t /\ mutex' = t
                /\ tun[t].becameUID = tun[t].originalUID
          ]_vars
    /\ [](\A t \in TunnelIds :
            tun[t].keepalive =>
                (KeepaliveInterval[t] > 0
                    /\ tun[t].pc \in {"unlock", "tunneling", "pump"}))

\* C28 witness: the keepalive task of a tunnel is started and the tunnel
\* still holds the mutex
C28_Witness ==
    \E t \in TunnelIds :
        /\ tun[t].keepalive
        /\ tun[t].pc = "unlock"
        /\ mutex = t
        /\ tun[t].client = "open"

\* C29: once Open has returned, which closes the done channel of the
\* keepalive task it started, the task eventually ends, wherever it was,
\* also in a request; the task calls client.Close() only in the step in
\* which a failed request brings the count to countMax, never in the step
\* that leaves the select by the done case
C29_KeepaliveTerminates ==
    /\ ka.done ~> (ka.pc = "exit")
    /\ [][(ka.pc = "run" /\ ka'.pc = "exit" /\ ka'.hist = ka.hist)
            => (ka.done /\ ka'.client = ka.client)]_vars
    /\ [][(ka.client = "open" /\ ka'.client = "closed")
            => /\ ka.pc = "request"
               /\ ka'.hist = Append(ka.hist, FALSE)
               /\ KAGiveUp(ka'.n, ka.countMax)]_vars

\* C29 witness: Open returned while the task waited for the reply to a
\* request; the task has ended and has not closed the client itself
C29_Witness ==
    /\ ka.pc = "exit"
    /\ ka.done
    /\ ka.doneAt = "request"
    /\ ka.client = "open"
    /\ ka.watcherClosed

\* C30 (as claimed): once the client is closed or the remote command has
\* ended, and once Open has returned, both copy goroutines that were
\* started eventually have returned
C30_CopyTasksTerminate ==
    ((pump.toTUN # "none")
        /\ (pump.client = "closed" \/ pump.session = "ended"
              \/ pump.pc = "returned"))
      ~> (pump.toTUN = "done" /\ pump.toRemote = "done")

\* C31 (as claimed): a worker that waits on its restart timer while the
\* context is canceled leaves the wait only by exiting; it does not go on
\* to another Open call, whether its timer has fired or not
C31_CancelStopsWaitingWorker ==
    [][\A t \in TunnelIds :
          (canceled /\ tun[t].pc = "timer" /\ tun'[t].pc # "timer")
            => tun'[t].pc = "stopped"]_vars

\* C32 (as claimed): in UploadHelperToRemote the writer goroutine has the
\* session's stdin before the remote copy command is started, so it never
\* has the error of StdinPipe to send, and it is not left blocked on the
\* send of its error once the caller has returned
C32_StdinBeforeStart ==
    /\ scp.started => scp.gpc # "pipe"
    /\ scp.gpc # "send"
    /\ scp.pc = "returned" => scp.gpc # "send"

\* C33: the command started by an Open attempt names the helper path that
\* the upload of the same attempt recorded; a failed upload returns from
\* Open with nothing started and the recorded path as it was; StartTunneling
\* with no recorded path returns ErrNoTunReadWriter and opens no session
C33_CommandNamesOwnUpload ==
    /\ []((sess.attempt > 0 /\ sess.command # 0) => sess.command = sess.attempt)
    /\ [](sess.started => sess.command = sess.remoteTunReadWriter)
    /\ [][(sess.pc = "upload" /\ sess'.pc = "idle")
            => /\ sess'.remoteTunReadWriter = sess.remoteTunReadWriter
               /\ sess'.result = "upload"
               /\ ~sess'.started /\ sess'.command = 0
               /\ sess'.session = "none"]_vars
    /\ [][(sess.pc = "tunneling" /\ sess'.pc # "tunneling"
              /\ sess.remoteTunReadWriter = 0)
            => /\ sess'.ret = "ErrNoTunReadWriter"
               /\ sess'.session = "none" /\ ~sess'.started]_vars
    /\ [](sess.ret = "ErrNoTunReadWriter" => sess.session = "none")

\* a third attempt whose command runs the path of its own upload
C33_Witness ==
    /\ sess.attempt = 3
    /\ sess.started
    /\ sess.command = 3
    /\ sess.remoteTunReadWriter = 3

\* C34 (as claimed): when CreateTUN has returned after /dev/net/tun was
\* opened, a failure has closed the descriptor with exactly one close call
\* and gives an error and no handle, and a success leaves the descriptor
\* open with the handle's File on it
C34_ClosedExactlyOnce ==
    (create.pc = "returned" /\ create.fd # "none") =>
        IF create.err
        THEN /\ ~create.t
             /\ create.fd = "closed"
             /\ create.closes = 1
        ELSE /\ create.t /\ create.file
             /\ create.fd = "open"
             /\ create.closes = 0

\* the tunnels the loop of OpenAll has passed
Passed == {t \in TunnelIds : t < idx}

\* C35: OpenAll starts a worker for each tunnel with enable=true as its loop
\* passes it and counts it once, and a tunnel with enable=false never has
\* a worker: Open is not called on it, wherever it stands in the set
C35_WorkerPerEnabledTunnel ==
    /\ \A t \in TunnelIds :
          tun[t].pc # "idle" <=> (Enable[t] /\ t \in Passed)
    /\ numberOfTunnels = Cardinality({t \in Passed : Enable[t]})
    /\ wg <= numberOfTunnels

\* the first tunnel is disabled and has no worker, the second is enabled
\* and its worker is in Open, the loop being over
C35_Witness ==
    /\ ~Enable[1] /\ Enable[2]
    /\ idx > NumTunnels
    /\ tun[1].pc = "idle"
    /\ tun[2].pc = "createTUN"
    /\ numberOfTunnels = 1

\* C36 (as claimed): when Open has returned, the local TUN handle it created
\* is closed: the File is closed and the descriptor of the device is
\* released, so none is open while the worker waits or has stopped
C36_TUNClosedAtReturn ==
    pump.pc = "returned" => (pump.file = "closed" /\ pump.fd = "closed")

\* C37: a worker of OpenAll stops only after an Open that returned an
\* unrecoverable error or at its select with the context canceled; after
\* any other return of Open, nil included, it waits for its timer, leaves
\* the wait for Open only once the timer has fired, and does call Open
\* again unless the context is canceled
C37_WorkerRetriesUnlessStopped ==
    /\ [][\A t \in TunnelIds :
            (tun[t].pc # "stopped" /\ tun'[t].pc = "stopped")
              => \/ tun[t].pc = "returned" /\ tun[t].lastErr = "unrecoverable"
                 \/ tun[t].pc = "timer" /\ canceled]_vars
    /\ [][\A t \in TunnelIds :
            (tun[t].pc = "returned" /\ tun'[t].pc # "returned"
               /\ tun[t].lastErr # "unrecoverable")
              => tun'[t].pc = "timer" /\ ~tun'[t].tmr]_vars
    /\ [][\A t \in TunnelIds :
            (tun[t].pc = "timer" /\ tun'[t].pc = "open") => tun[t].tmr]_vars
    /\ \A t \in TunnelIds :
          (tun[t].pc = "returned" /\ tun[t].lastErr # "unrecoverable")
            ~> (tun[t].pc = "open" \/ canceled)

\* the worker of a tunnel whose Open returned nil with the context not
\* canceled has seen its timer fire
C37_Witness ==
    /\ ~canceled
    /\ tun[1].pc = "timer"
    /\ tun[1].lastErr = "nil"
    /\ tun[1].tmr

\* C38 (as claimed): a tunnel that gets the token when the context is
\* already canceled returns from Open; it does not go on to the privileged
\* section (Become(ROOT), CreateTUN)
C38_NoPrivilegedSectionAfterCancel ==
    [][\A t \in TunnelIds :
          (canceled /\ tun[t].pc = "lock" /\ tun'[t].pc # "lock")
            => tun'[t].pc = "returned"]_vars

\* C39 (as claimed): StartTunneling returns nil only when the remote
\* command was started, and so does Open while the context is not canceled
C39_NilOnlyAfterStart ==
    /\ sess.ret = "nil" => sess.started
    /\ (sess.result = "nil" /\ ~sess.canceled) => sess.started

\* C40 (as claimed): the Close calls on a TUN handle release the handle's
\* own descriptor only; none of them closes a descriptor that another user
\* of the process has opened under the same number since
C40_CloseReleasesOwnOnly ==
    ~dev.otherClosed

====
